---- MODULE Spec2Model ----
(***************************************************************************)
(* A model of lazyls: the shared AppState store (state.go), the key        *)
(* handlers and the layout pass that run on the gocui main loop            *)
(* (handlers.go, ui.go) and the background statistics scan (core.go).      *)
(***************************************************************************)
EXTENDS Integers, Sequences, FiniteSets, TLC

\* ------------------------------------------------------------------ bounds
MaxLen == 3         \* longest directory list
MaxHeight == 3      \* tallest list view
MaxNegHeight == 1   \* heights down to -MaxNegHeight are passed to the store
MaxTotal == 2       \* largest total a caller passes to SetStatsResults
MaxEntries == 3     \* entries in the tree the scanner walks
MaxOptions == 3     \* most options a caller hands to OpenActionMenu
MaxScrollDelta == 3 \* largest delta a caller hands to ScrollFileContentView
MaxUiLen == 2       \* directories and files in the directory the interface shows

\* ------------------------------------------------------- program constants
viewStatus == "status"
viewFolders == "folders"
viewFiles == "files"
viewActionMenu == "actionMenu"
viewFileContent == "fileContent"

StatsPending == -1
StatsError == -2
NoError == "nil"

Max(a, b) == IF a > b THEN a ELSE b

\* Go's integer division truncates toward zero.
GoDiv(a, b) == IF a >= 0 THEN a \div b ELSE -((-a) \div b)

\* ---------------------------------------------------------------- entities
FileInfo(name, isDir, size) == [Name |-> name, IsDir |-> isDir, Size |-> size]
EmptyFileInfo == FileInfo("", FALSE, 0)

\* A text is a unit of characters written out a number of times, so that a
\* file of millions of lines is a value like any other.
Text(unit, times) == [unit |-> unit, times |-> times]
EmptyText == Text(<<>>, 0)
TextLen(content) == content.times * Len(content.unit)

DirNames == <<"da", "db", "dc", "dd", "de">>
FileNames == <<"fa", "fb", "fc", "fd", "fe">>
HiddenDirNames == <<".da", ".db", ".dc", ".dd", ".de">>
HiddenFileNames == <<".fa", ".fb", ".fc", ".fd", ".fe">>

\* The listing loadDirectoryContents builds: one FileInfo per entry, sorted by
\* name, Size left at its zero value.
Listing(names, isDir, n) == [i \in 1..n |-> FileInfo(names[i], isDir, 0)]

VARIABLES
    visibleDirs, visibleFiles, hiddenDirs, hiddenFiles, showHidden,
    originY, cursorY,
    totalSize, largestFile, gitStatus, isLoadingStats, statsError,
    isActionMenuVisible, actionMenuItemTarget, actionMenuOptions,
    actionMenuSelectedIdx, previousFocusView,
    isFileContentViewVisible, fileContentViewFileName, fileContentViewContent,
    fileContentViewTotalLines, fileContentViewOriginY, fileContentViewPrevFocus,
    lastMessage,
    currentView, views, viewHeight, updates, quitting,
    scanPc, tree, walk,
    rdPc, rd, race, mutex, mem,
    last, drawn, openedFrom

listVars == <<visibleDirs, visibleFiles, hiddenDirs, hiddenFiles>>
vpVars == <<originY, cursorY>>
statVars == <<totalSize, largestFile, gitStatus, isLoadingStats, statsError>>
menuVars == <<isActionMenuVisible, actionMenuItemTarget, actionMenuOptions,
              actionMenuSelectedIdx, previousFocusView>>
viewerVars == <<isFileContentViewVisible, fileContentViewFileName,
                fileContentViewContent, fileContentViewTotalLines,
                fileContentViewOriginY, fileContentViewPrevFocus>>
guiVars == <<currentView, views, updates, quitting>>
scanVars == <<scanPc, tree, walk>>
rdVars == <<rdPc, rd, race, mutex, mem>>
histVars == <<drawn, openedFrom>>

vars == <<listVars, showHidden, vpVars, statVars, menuVars, viewerVars,
          lastMessage, guiVars, viewHeight, scanVars, rdVars, last, histVars>>

\* ------------------------------------------------------------- NewAppState
VpKeys == {"visibleFolders", "visibleFiles", "hiddenFolders", "hiddenFiles"}

NewAppState ==
    /\ showHidden = FALSE
    /\ isLoadingStats = TRUE
    /\ gitStatus = "Checking..."
    /\ totalSize = StatsPending
    /\ largestFile = EmptyFileInfo
    /\ statsError = NoError
    /\ originY = [k \in VpKeys |-> 0]
    /\ cursorY = [k \in VpKeys |-> 0]
    /\ isActionMenuVisible = FALSE
    /\ actionMenuItemTarget = EmptyFileInfo
    /\ actionMenuOptions = <<>>
    /\ actionMenuSelectedIdx = 0
    /\ previousFocusView = ""
    /\ isFileContentViewVisible = FALSE
    /\ fileContentViewFileName = ""
    /\ fileContentViewContent = EmptyText
    /\ fileContentViewTotalLines = 0
    /\ fileContentViewOriginY = 0
    /\ fileContentViewPrevFocus = ""
    /\ lastMessage = ""

\* loadDirectoryContents at startup, on a directory of n directories and n
\* files of which any number are hidden (their names start with a dot).
loadDirectoryContents(n) ==
    \E nhd \in 0..n, nhf \in 0..n :
        /\ visibleDirs = Listing(DirNames, TRUE, n - nhd)
        /\ visibleFiles = Listing(FileNames, FALSE, n - nhf)
        /\ hiddenDirs = Listing(HiddenDirNames, TRUE, nhd)
        /\ hiddenFiles = Listing(HiddenFileNames, FALSE, nhf)

\* The parts of the state a specification leaves at rest.
GuiAtRest ==
    /\ currentView = viewFolders
    /\ views = {viewFolders, viewFiles}
    /\ updates = 0
    /\ quitting = FALSE
ScanAtRest ==
    /\ scanPc = "start"
    /\ tree = <<>>
    /\ walk = <<>>
\* No pair of store calls is being compared.
NoRace == [phase |-> "idle", round |-> 0]

\* The store's RWMutex: who holds it for writing, who for reading.
Unlocked == [writer |-> "", readers |-> {}]

\* The values a caller of the store holds by reference: cells[a] is what
\* address a holds, itemAt the address s.itemToDelete points to (0 for nil),
\* got the addresses the store's reads have returned.
NoMem == [cells |-> <<>>, itemAt |-> 0, got |-> {}]

ReaderAtRest ==
    /\ rdPc = "idle"
    /\ rd = <<>>
    /\ race = NoRace
    /\ mutex = Unlocked
    /\ mem = NoMem
HistoryAtRest ==
    /\ last = [op |-> "init"]
    /\ drawn = <<>>
    /\ openedFrom = ""

\* --------------------------------------------- list selection (state.go)
\* The viewport record moveCursorAndOrigin / setCursorAndOrigin select, "" for
\* a view name that is neither list.
VpKeyUnknownAsFolders(viewName, isHidden) ==
    CASE viewName = viewFiles -> IF isHidden THEN "hiddenFiles" ELSE "visibleFiles"
      [] OTHER -> IF isHidden THEN "hiddenFolders" ELSE "visibleFolders"

VpKey(viewName, isHidden) ==
    CASE viewName = viewFolders -> IF isHidden THEN "hiddenFolders" ELSE "visibleFolders"
      [] viewName = viewFiles -> IF isHidden THEN "hiddenFiles" ELSE "visibleFiles"
      [] OTHER -> ""

ListOf(key) ==
    CASE key = "visibleFolders" -> visibleDirs
      [] key = "hiddenFolders" -> hiddenDirs
      [] key = "visibleFiles" -> visibleFiles
      [] key = "hiddenFiles" -> hiddenFiles

GetCurrentList(viewName) ==
    IF VpKey(viewName, showHidden) = "" THEN <<>> ELSE ListOf(VpKey(viewName, showHidden))

GetCurrentCursorY(viewName) ==
    IF VpKey(viewName, showHidden) = "" THEN 0 ELSE cursorY[VpKey(viewName, showHidden)]

\* ------------------------------------------ viewport arithmetic (state.go)
ClampCursor(c, listLen) ==
    LET lo == IF c < 0 THEN 0 ELSE c
    IN IF lo >= listLen THEN listLen - 1 ELSE lo

ClampOrigin(o, listLen, vh) ==
    LET maxOriginY == IF listLen - vh < 0 THEN 0 ELSE listLen - vh
        hi == IF o > maxOriginY THEN maxOriginY ELSE o
    IN IF hi < 0 THEN 0 ELSE hi

OriginAfterMoveOffByOne(newCursorY, oldOriginY, vh) ==
    IF newCursorY < oldOriginY THEN newCursorY
    ELSE IF newCursorY >= oldOriginY + vh THEN newCursorY - vh
    ELSE oldOriginY

OriginAfterMoveRecentred(newCursorY, oldOriginY, vh) == newCursorY - GoDiv(vh, 2)

OriginAfterMove(newCursorY, oldOriginY, vh) ==
    IF newCursorY < oldOriginY THEN newCursorY
    ELSE IF newCursorY >= oldOriginY + vh THEN newCursorY - vh + 1
    ELSE oldOriginY

OriginAfterJumpAlways(newCursorY, oldOriginY, vh) == newCursorY - GoDiv(vh, 2)

OriginAfterJump(newCursorY, oldOriginY, vh) ==
    IF newCursorY < oldOriginY \/ newCursorY >= oldOriginY + vh
    THEN newCursorY - GoDiv(vh, 2)
    ELSE oldOriginY

moveByReportsCursorOnly(listLen, oldCursorY, oldOriginY, delta, vh) ==
    IF listLen <= 0
    THEN [cursor |-> 0, origin |-> 0, changed |-> oldOriginY # 0 \/ oldCursorY # 0]
    ELSE LET newCursorY == ClampCursor(oldCursorY + delta, listLen)
             newOriginY == ClampOrigin(OriginAfterMove(newCursorY, oldOriginY, vh), listLen, vh)
         IN [cursor |-> newCursorY, origin |-> newOriginY,
             changed |-> oldCursorY # newCursorY]

\* What moveCursorAndOrigin computes for a list of listLen entries.
moveBy(listLen, oldCursorY, oldOriginY, delta, vh) ==
    IF listLen <= 0
    THEN [cursor |-> 0, origin |-> 0, changed |-> oldOriginY # 0 \/ oldCursorY # 0]
    ELSE LET newCursorY == ClampCursor(oldCursorY + delta, listLen)
             newOriginY == ClampOrigin(OriginAfterMove(newCursorY, oldOriginY, vh), listLen, vh)
         IN [cursor |-> newCursorY, origin |-> newOriginY,
             changed |-> oldCursorY # newCursorY \/ oldOriginY # newOriginY]

jumpToUnclamped(listLen, oldCursorY, oldOriginY, target, vh) ==
    IF listLen <= 0
    THEN [cursor |-> 0, origin |-> 0, changed |-> oldOriginY # 0 \/ oldCursorY # 0]
    ELSE LET newCursorY == ClampCursor(target, listLen)
             newOriginY == OriginAfterJump(newCursorY, oldOriginY, vh)
         IN [cursor |-> newCursorY, origin |-> newOriginY,
             changed |-> oldCursorY # newCursorY \/ oldOriginY # newOriginY]

\* What setCursorAndOrigin computes for a list of listLen entries.
jumpTo(listLen, oldCursorY, oldOriginY, target, vh) ==
    IF listLen <= 0
    THEN [cursor |-> 0, origin |-> 0, changed |-> oldOriginY # 0 \/ oldCursorY # 0]
    ELSE LET newCursorY == ClampCursor(target, listLen)
             newOriginY == ClampOrigin(OriginAfterJump(newCursorY, oldOriginY, vh), listLen, vh)
         IN [cursor |-> newCursorY, origin |-> newOriginY,
             changed |-> oldCursorY # newCursorY \/ oldOriginY # newOriginY]

moveResult(viewName, delta, vh) ==
    LET k == VpKey(viewName, showHidden)
    IN IF k = "" THEN [cursor |-> 0, origin |-> 0, changed |-> FALSE]
       ELSE moveBy(Len(ListOf(k)), cursorY[k], originY[k], delta, vh)

setResult(viewName, newCursorY, vh) ==
    LET k == VpKey(viewName, showHidden)
    IN IF k = "" THEN [cursor |-> 0, origin |-> 0, changed |-> FALSE]
       ELSE jumpTo(Len(ListOf(k)), cursorY[k], originY[k], newCursorY, vh)

InstallViewportForBothFlags(viewName, r) ==
    LET k == VpKey(viewName, showHidden)
        other == VpKey(viewName, ~showHidden)
    IN IF k = "" THEN UNCHANGED vpVars
       ELSE /\ cursorY' = [cursorY EXCEPT ![k] = r.cursor, ![other] = r.cursor]
            /\ originY' = [originY EXCEPT ![k] = r.origin, ![other] = r.origin]

InstallViewport(viewName, r) ==
    LET k == VpKey(viewName, showHidden)
    IN IF k = "" THEN UNCHANGED vpVars
       ELSE /\ cursorY' = [cursorY EXCEPT ![k] = r.cursor]
            /\ originY' = [originY EXCEPT ![k] = r.origin]

moveCursorAndOrigin(viewName, delta, vh) ==
    InstallViewport(viewName, moveResult(viewName, delta, vh))

setCursorAndOrigin(viewName, newCursorY, vh) ==
    InstallViewport(viewName, setResult(viewName, newCursorY, vh))

ResetViewports ==
    /\ originY' = [k \in VpKeys |-> 0]
    /\ cursorY' = [k \in VpKeys |-> 0]

ToggleHiddenOn ==
    /\ showHidden' = TRUE
    /\ ResetViewports

ToggleHidden ==
    /\ showHidden' = ~showHidden
    /\ ResetViewports

SetDirectoryContentsKeepingCursor(vd, vf, hd, hf) ==
    /\ visibleDirs' = vd
    /\ visibleFiles' = vf
    /\ hiddenDirs' = hd
    /\ hiddenFiles' = hf
    /\ originY' = [k \in VpKeys |-> 0]
    /\ cursorY' = cursorY
    /\ showHidden' = showHidden

\* SetDirectoryContents: the four lists are replaced, every cursor and origin
\* goes back to 0, the hidden flag is not written.
SetDirectoryContents(vd, vf, hd, hf) ==
    /\ visibleDirs' = vd
    /\ visibleFiles' = vf
    /\ hiddenDirs' = hd
    /\ hiddenFiles' = hf
    /\ ResetViewports
    /\ showHidden' = showHidden

\* ------------------------------------------------ scan results (state.go)
SetMessageUnlessLoading(msg) == lastMessage' = IF isLoadingStats THEN lastMessage ELSE msg

SetMessage(msg) == lastMessage' = msg

ClearMessage == lastMessage' = ""

SetStatsLoading ==
    /\ isLoadingStats' = TRUE
    /\ gitStatus' = "Calculating..."
    /\ totalSize' = StatsPending
    /\ largestFile' = EmptyFileInfo
    /\ statsError' = NoError

ForcedTotalKept(total, err) == total

ForcedTotal(total, err) ==
    IF err # NoError /\ total # StatsError THEN StatsError ELSE total

SetStatsResultsPartial(total, largest, git, err) ==
    /\ totalSize' = ForcedTotal(total, err)
    /\ gitStatus' = git
    /\ isLoadingStats' = FALSE
    /\ statsError' = err
    /\ UNCHANGED largestFile

SetStatsResultsStillLoading(total, largest, git, err) ==
    /\ totalSize' = ForcedTotal(total, err)
    /\ largestFile' = largest
    /\ gitStatus' = git
    /\ statsError' = err
    /\ UNCHANGED isLoadingStats

SetStatsResults(total, largest, git, err) ==
    /\ totalSize' = ForcedTotal(total, err)
    /\ largestFile' = largest
    /\ gitStatus' = git
    /\ isLoadingStats' = FALSE
    /\ statsError' = err

\* ===================================================== SpecViewport ======
\* The store's cursor operations called with any view name, delta, target and
\* one fixed view height, on any listing.
Heights == (0 - MaxNegHeight)..MaxHeight
Deltas == (0 - (MaxLen + 1))..(MaxLen + 1)
Targets == (0 - 1)..(MaxLen + 1)
CallViewNames == {viewFolders, viewFiles, viewStatus}

InitViewport ==
    /\ NewAppState
    /\ loadDirectoryContents(MaxLen)
    /\ viewHeight \in Heights
    /\ GuiAtRest /\ ScanAtRest /\ ReaderAtRest /\ HistoryAtRest

VpFrame ==
    UNCHANGED <<listVars, statVars, menuVars, viewerVars, lastMessage, guiVars,
                viewHeight, scanVars, rdVars, histVars>>

CallMoveCursor ==
    \E v \in CallViewNames, d \in Deltas :
        /\ moveCursorAndOrigin(v, d, viewHeight)
        /\ last' = [op |-> "moveCursorAndOrigin", viewName |-> v, arg |-> d,
                    changed |-> moveResult(v, d, viewHeight).changed]
        /\ UNCHANGED showHidden
        /\ VpFrame

CallSetCursor ==
    \E v \in CallViewNames, t \in Targets :
        /\ setCursorAndOrigin(v, t, viewHeight)
        /\ last' = [op |-> "setCursorAndOrigin", viewName |-> v, arg |-> t,
                    changed |-> setResult(v, t, viewHeight).changed]
        /\ UNCHANGED showHidden
        /\ VpFrame

\* ToggleHidden returns the flag it has just written; the record keeps the
\* flag from before the call and whether a viewport had moved before this
\* call or before the toggle that directly preceded it.
CallToggleHidden ==
    /\ ToggleHidden
    /\ last' = [op |-> "ToggleHidden",
                returned |-> showHidden',
                was |-> showHidden,
                twice |-> last.op = "ToggleHidden",
                moved |-> \/ \E k \in VpKeys : cursorY[k] > 0
                          \/ (last.op = "ToggleHidden" /\ last.moved)]
    /\ VpFrame

NextViewport == CallMoveCursor \/ CallSetCursor \/ CallToggleHidden

\* The terminal is resized: the list views get another height, which the
\* handlers read from the view on the next key; the store is not told.
ViewSizes == {h \in Heights : h >= 1}

Resize ==
    /\ \E h \in ViewSizes \ {viewHeight} : viewHeight' = h
    /\ last' = [op |-> "resize"]
    /\ UNCHANGED <<listVars, showHidden, vpVars, statVars, menuVars, viewerVars,
                   lastMessage, guiVars, scanVars, rdVars, histVars>>

NextResize == NextViewport \/ Resize

\* The store's cursor operations together with a reload of the listing: the
\* new listing is any one that loadDirectoryContents builds from a directory
\* of up to MaxLen directories and MaxLen files.
CallSetDirectoryContents ==
    \E n \in 0..MaxLen :
        \E nhd \in 0..n, nhf \in 0..n :
            LET vd == Listing(DirNames, TRUE, n - nhd)
                vf == Listing(FileNames, FALSE, n - nhf)
                hd == Listing(HiddenDirNames, TRUE, nhd)
                hf == Listing(HiddenFileNames, FALSE, nhf)
            IN /\ SetDirectoryContents(vd, vf, hd, hf)
               /\ last' = [op |-> "SetDirectoryContents",
                           given |-> <<vd, vf, hd, hf>>,
                           moved |-> \E k \in VpKeys : originY[k] > 0,
                           replaced |-> <<vd, vf, hd, hf>> # listVars]
               /\ UNCHANGED <<statVars, menuVars, viewerVars, lastMessage, guiVars,
                              viewHeight, scanVars, rdVars, histVars>>

NextReload == NextViewport \/ CallSetDirectoryContents

InitReload == InitViewport /\ viewHeight \in ViewSizes

SpecReload == InitReload /\ [][NextReload]_vars

InitResize == InitViewport /\ viewHeight \in ViewSizes

SpecResize == InitResize /\ [][NextResize]_vars

SpecViewport == InitViewport /\ [][NextViewport]_vars

\* The viewport invariant of one list for view height h.
ViewportInv(k, h) ==
    LET n == Len(ListOf(k))
    IN IF n = 0
       THEN cursorY[k] = 0 /\ originY[k] = 0
       ELSE /\ 0 <= cursorY[k] /\ cursorY[k] < n
            /\ originY[k] <= cursorY[k] /\ cursorY[k] <= originY[k] + h - 1
            /\ 0 <= originY[k] /\ originY[k] <= Max(0, n - h)

\* C1: with a fixed view height >= 1, after any sequence of moveCursorAndOrigin
\* and setCursorAndOrigin calls every viewport satisfies 0 <= cursor < length
\* (cursor = origin = 0 on an empty list), origin <= cursor <= origin+height-1
\* and 0 <= origin <= max(0, length - height).
C1_ViewportInvariant ==
    viewHeight >= 1 => \A k \in VpKeys : ViewportInv(k, viewHeight)

\* C1 witness: a call has scrolled a list longer than the view, the cursor on
\* the last visible row.
C1_Witness ==
    /\ viewHeight >= 1
    /\ last.op \in {"moveCursorAndOrigin", "setCursorAndOrigin"}
    /\ \E k \in VpKeys :
        /\ Len(ListOf(k)) > viewHeight
        /\ originY[k] > 0
        /\ cursorY[k] = originY[k] + viewHeight - 1

\* C2: a call with view height <= 0 leaves the viewport where the same call
\* with height 1 would leave it, so origin <= cursor afterwards.
C2_DegenerateHeightAsOne ==
    [][(/\ viewHeight <= 0
        /\ last'.op \in {"moveCursorAndOrigin", "setCursorAndOrigin"}
        /\ VpKey(last'.viewName, showHidden) # "")
       => LET k == VpKey(last'.viewName, showHidden)
              r == IF last'.op = "moveCursorAndOrigin"
                   THEN moveResult(last'.viewName, last'.arg, 1)
                   ELSE setResult(last'.viewName, last'.arg, 1)
          IN /\ cursorY'[k] = r.cursor
             /\ originY'[k] = r.origin
             /\ (Len(ListOf(k)) > 0 => originY'[k] <= cursorY'[k])]_vars

\* ======================================================== SpecStats ======
\* The store's scan operations called with any arguments.
TotalInputs == (0 - 2)..MaxTotal
LargestInputs == {EmptyFileInfo, FileInfo("fa", FALSE, 1),
                  FileInfo("Error during scan", FALSE, StatsError)}
GitInputs == {"Status Unknown (Error)", "Inactive", "Active: (Branch Error)",
              "Active: (Detached HEAD?)", "Active: (main)"}
ErrInputs == {NoError, "accessing da: permission denied"}

InitStats ==
    /\ NewAppState
    /\ loadDirectoryContents(0)
    /\ viewHeight = MaxHeight
    /\ GuiAtRest /\ ScanAtRest /\ ReaderAtRest /\ HistoryAtRest

StatsFrame ==
    UNCHANGED <<listVars, showHidden, vpVars, menuVars, viewerVars, lastMessage,
                guiVars, viewHeight, scanVars, rdVars, histVars>>

CallSetStatsLoading ==
    /\ SetStatsLoading
    /\ last' = [op |-> "SetStatsLoading"]
    /\ StatsFrame

CallSetStatsResults ==
    \E t \in TotalInputs, lf \in LargestInputs, g \in GitInputs, e \in ErrInputs :
        /\ SetStatsResults(t, lf, g, e)
        /\ last' = [op |-> "SetStatsResults", total |-> t, err |-> e]
        /\ StatsFrame

NextStats == CallSetStatsLoading \/ CallSetStatsResults

SpecStats == InitStats /\ [][NextStats]_vars

\* C7: SetStatsResults with a non-nil error leaves total size at the error
\* sentinel -2 whatever total was passed, and clears the loading flag.
C7_ErrorForcesSentinel ==
    (last.op = "SetStatsResults" /\ last.err # NoError)
        => (totalSize = StatsError /\ ~isLoadingStats /\ statsError = last.err)

\* C7 witness: a caller passed a valid total together with an error.
C7_Witness ==
    /\ last.op = "SetStatsResults" /\ last.err # NoError
    /\ last.total >= 0
    /\ totalSize = StatsError

\* ============================================================ Spec ======
\* The gocui main loop: key events dispatched on the focused view, and the
\* layout pass that redraws after a batch of events.

\* ------------------------------------------------- action menu (state.go)
OpenActionMenuWithoutFocus(item, options, currentFocusView) ==
    /\ isActionMenuVisible' = TRUE
    /\ actionMenuItemTarget' = item
    /\ actionMenuOptions' = options
    /\ actionMenuSelectedIdx' = 0
    /\ previousFocusView' = ""
    /\ lastMessage' = ""

OpenActionMenu(item, options, currentFocusView) ==
    /\ isActionMenuVisible' = TRUE
    /\ actionMenuItemTarget' = item
    /\ actionMenuOptions' = options
    /\ actionMenuSelectedIdx' = 0
    /\ previousFocusView' = currentFocusView
    /\ lastMessage' = ""

CloseActionMenu ==
    /\ isActionMenuVisible' = FALSE
    /\ actionMenuItemTarget' = EmptyFileInfo
    /\ actionMenuOptions' = <<>>
    /\ actionMenuSelectedIdx' = 0 - 1
    /\ UNCHANGED previousFocusView

NavigatedIdxClamped(delta) ==
    LET n == Len(actionMenuOptions)
        moved == actionMenuSelectedIdx + delta
    IN IF moved < 0 THEN 0 ELSE IF moved >= n THEN n - 1 ELSE moved

NavigatedIdxUnwrapped(delta) == actionMenuSelectedIdx + delta

NavigatedIdx(delta) ==
    LET n == Len(actionMenuOptions)
        moved == actionMenuSelectedIdx + delta
        top == IF moved < 0 THEN n - 1 ELSE moved
    IN IF top >= n THEN 0 ELSE top

NavigateActionMenu(delta) ==
    IF ~isActionMenuVisible \/ Len(actionMenuOptions) = 0
    THEN UNCHANGED menuVars
    ELSE /\ actionMenuSelectedIdx' = NavigatedIdx(delta)
         /\ UNCHANGED <<isActionMenuVisible, actionMenuItemTarget,
                        actionMenuOptions, previousFocusView>>

\* ------------------------------------------------ content view (state.go)
\* File content is a sequence of characters.
NL == "\n"
TAB == "\t"
NUL == "NUL"

\* strings.Count(content, "\n")
CountNL(content) ==
    content.times * Cardinality({i \in DOMAIN content.unit : content.unit[i] = NL})

TotalLines(content) ==
    IF TextLen(content) > 0 /\ content.unit[Len(content.unit)] # NL
    THEN CountNL(content) + 1
    ELSE IF TextLen(content) = 0 THEN 1
    ELSE CountNL(content)

SetFileContentViewHidden(filename, content, prevFocus) ==
    /\ isFileContentViewVisible' = FALSE
    /\ fileContentViewFileName' = filename
    /\ fileContentViewContent' = content
    /\ fileContentViewTotalLines' = TotalLines(content)
    /\ fileContentViewOriginY' = 0
    /\ fileContentViewPrevFocus' = prevFocus

SetFileContentView(filename, content, prevFocus) ==
    /\ isFileContentViewVisible' = TRUE
    /\ fileContentViewFileName' = filename
    /\ fileContentViewContent' = content
    /\ fileContentViewTotalLines' = TotalLines(content)
    /\ fileContentViewOriginY' = 0
    /\ fileContentViewPrevFocus' = prevFocus

CloseFileContentView ==
    /\ isFileContentViewVisible' = FALSE
    /\ fileContentViewFileName' = ""
    /\ fileContentViewContent' = EmptyText
    /\ fileContentViewTotalLines' = 0
    /\ fileContentViewOriginY' = 0
    /\ UNCHANGED fileContentViewPrevFocus

ScrolledOriginToLastLine(delta, vh) ==
    LET newOriginY == fileContentViewOriginY + delta
        maxOriginY == IF fileContentViewTotalLines - 1 < 0 THEN 0
                      ELSE fileContentViewTotalLines - 1
        lo == IF newOriginY < 0 THEN 0 ELSE newOriginY
    IN IF lo > maxOriginY THEN maxOriginY ELSE lo

ScrolledOrigin(delta, vh) ==
    LET newOriginY == fileContentViewOriginY + delta
        maxOriginY == IF fileContentViewTotalLines - vh < 0 THEN 0
                      ELSE fileContentViewTotalLines - vh
        lo == IF newOriginY < 0 THEN 0 ELSE newOriginY
    IN IF lo > maxOriginY THEN maxOriginY ELSE lo

ScrollFileContentView(delta, vh) ==
    IF ~isFileContentViewVisible
    THEN UNCHANGED viewerVars
    ELSE /\ fileContentViewOriginY' = ScrolledOrigin(delta, vh)
         /\ UNCHANGED <<isFileContentViewVisible, fileContentViewFileName,
                        fileContentViewContent, fileContentViewTotalLines,
                        fileContentViewPrevFocus>>

\* --------------------------------------------------- the environment
\* An error is the sequence of the parts its text has between ": ".
NoErr == <<>>
ErrClipboard == <<"clipboard unavailable">>
ErrStat == <<"could not stat file", "no such file or directory">>
\* ReadFileWithLimit's size error names the limit: maxViewSize for viewing,
\* maxCopySize for copying.
ErrTooLarge == <<"file too large (> 20 MiB)">>
ErrTooLargeCopy == <<"file too large (> 5 MiB)">>
ErrIsDirCopy == <<"cannot copy content of a directory">>
ErrIsDirView == <<"cannot view content of a directory">>
ErrBinary == <<"cannot display binary file content">>
ErrRelPath == <<"could not determine relative path">>

\* The texts a file may hold: lines of "x", a tab, a NUL byte, and a text
\* longer than the view.
LongText == Text(<<"x", NL>>, MaxHeight + 2)
maxViewSize == 20971520
JumpDelta == 999999
BigLineCounts == {JumpDelta, JumpDelta + MaxHeight + 3, 2 * JumpDelta + MaxHeight + 3}
SmallTexts ==
    {Text(<<"x">>, 1), Text(<<"x", NL, "x">>, 1), Text(<<TAB>>, 1), Text(<<"x", NUL>>, 1),
     LongText}
FileTexts ==
    SmallTexts
        \cup {t \in {Text(<<"x", NL>>, n) : n \in BigLineCounts} : TextLen(t) <= maxViewSize}

\* What ReadFileWithLimit returns: an error, nil bytes for an empty file, or
\* the bytes read.
ReadResults ==
    {[err |-> e, bytes |-> EmptyText] : e \in {ErrStat, ErrTooLarge, NoErr}}
        \cup {[err |-> NoErr, bytes |-> b] : b \in FileTexts}

\* strings.ReplaceAll(content, "\t", "    ")
RECURSIVE ReplaceTabsIn(_)
ReplaceTabsIn(chars) ==
    IF chars = <<>> THEN <<>>
    ELSE (IF Head(chars) = TAB THEN <<" ", " ", " ", " ">> ELSE <<Head(chars)>>)
             \o ReplaceTabsIn(Tail(chars))
ReplaceTabs(bytes) == Text(ReplaceTabsIn(bytes.unit), bytes.times)

HasNulNever(bytes) == FALSE

HasNul(bytes) == \E i \in DOMAIN bytes.unit : bytes.unit[i] = NUL

ErrorMessageDropped(label, err) == ""

\* trimError(fmt.Errorf("Error: %s - %v", label, err)): the part after the last
\* ": " (every message modelled is shorter than the 60 character cut).
ErrorMessage(label, err) ==
    IF Len(err) = 1 THEN label \o " - " \o err[1] ELSE err[Len(err)]

SuccessMessage(label, item) ==
    IF label = "Copy Content (UTF-8)" THEN "Content of '" \o item.Name \o "' copied"
    ELSE "'" \o label \o "' copied to clipboard"

copyToClipboard(clipOk) == IF clipOk THEN NoErr ELSE ErrClipboard

\* The error the menu entry's ActionFn returns, NoErr for nil.
ActionError(label, item, relOk, clipOk, read) ==
    CASE label = "Copy Full Path" -> copyToClipboard(clipOk)
      [] label = "Copy Relative Path" ->
            IF ~relOk THEN ErrRelPath ELSE copyToClipboard(clipOk)
      [] label = "Copy Content (UTF-8)" ->
            IF item.IsDir THEN ErrIsDirCopy
            ELSE IF read.err = ErrTooLarge THEN ErrTooLargeCopy
            ELSE IF read.err # NoErr THEN read.err
            ELSE copyToClipboard(clipOk)
      [] label = "View Content" ->
            IF item.IsDir THEN ErrIsDirView
            ELSE IF read.err # NoErr THEN read.err
            ELSE IF HasNul(read.bytes) THEN ErrBinary
            ELSE NoErr
      [] OTHER -> NoErr

\* The text viewFileContentAction hands to the content view.
ViewedContent(read) ==
    IF read.bytes # EmptyText THEN ReplaceTabs(read.bytes)
    ELSE Text(<<"[Empty File]">>, 1)

ViewerReturnFocusCurrent == currentView

\* The focus viewFileContentAction records for the content view.
ViewerReturnFocus ==
    IF previousFocusView = "" THEN viewFolders ELSE previousFocusView

\* ------------------------------------------------------------- gocui
\* g.SetCurrentView(name): the focus afterwards.
SetCurrentView(name) == IF name \in views THEN name ELSE currentView

RestoredFocusDefault(prevFocus) == SetCurrentView(viewFolders)

\* The focus after handleMenuClose / handleCloseFileContentView restore it.
RestoredFocus(prevFocus) ==
    LET targetFocusView ==
            IF prevFocus # "" /\ prevFocus \in views THEN prevFocus ELSE viewFolders
    IN SetCurrentView(targetFocusView)

MenuOptionsForAnyItem(item) ==
    <<"Copy Full Path", "Copy Relative Path", "View Content",
      "Copy Content (UTF-8)", "Cancel">>

\* The options handleEnter offers for an item.
MenuOptions(item) ==
    <<"Copy Full Path", "Copy Relative Path">>
        \o (IF item.IsDir THEN <<>> ELSE <<"View Content", "Copy Content (UTF-8)">>)
        \o <<"Cancel">>

UiFrame == UNCHANGED <<listVars, statVars, viewHeight, scanVars, rdVars, views, drawn>>

\* What the last key event did; redrawn says a layout pass has run since.
Event(op, key) ==
    [op |-> op, key |-> key, label |-> "", ok |-> FALSE, wasVisible |-> FALSE,
     returnFocus |-> "", changed |-> FALSE, opened |-> FALSE, redrawn |-> FALSE]

\* ----------------------------------------------------------- handlers
handleMoveCursor(key, delta) ==
    /\ moveCursorAndOrigin(currentView, delta, viewHeight)
    /\ updates' = IF moveResult(currentView, delta, viewHeight).changed THEN 1 ELSE updates
    /\ last' = [changed |-> moveResult(currentView, delta, viewHeight).changed]
               @@ Event("handleMoveCursor", key)
    /\ UNCHANGED <<showHidden, menuVars, viewerVars, lastMessage, currentView,
                   quitting, openedFrom>>
    /\ UiFrame

handleGoTopBottom(key, toTop) ==
    LET listLen == Len(GetCurrentList(currentView))
        newCursorY == IF ~toTop /\ listLen > 0 THEN listLen - 1 ELSE 0
        r == setResult(currentView, newCursorY, viewHeight)
    IN /\ setCursorAndOrigin(currentView, newCursorY, viewHeight)
       /\ updates' = IF r.changed THEN 1 ELSE updates
       /\ last' = [changed |-> r.changed]
               @@ Event("handleGoTopBottom", key)
       /\ UNCHANGED <<showHidden, menuVars, viewerVars, lastMessage, currentView,
                      quitting, openedFrom>>
       /\ UiFrame

handleEnter ==
    LET currentList == GetCurrentList(currentView)
        cY == GetCurrentCursorY(currentView)
    IN IF Len(currentList) = 0 \/ cY < 0 \/ cY >= Len(currentList)
       THEN /\ last' = [opened |-> FALSE]
               @@ Event("handleEnter", "Enter")
            /\ UNCHANGED <<showHidden, vpVars, menuVars, viewerVars, lastMessage,
                           guiVars, openedFrom>>
            /\ UiFrame
       ELSE /\ OpenActionMenu(currentList[cY + 1], MenuOptions(currentList[cY + 1]),
                              currentView)
            /\ updates' = 1
            /\ openedFrom' = currentView
            /\ last' = [opened |-> TRUE]
               @@ Event("handleEnter", "Enter")
            /\ UNCHANGED <<showHidden, vpVars, viewerVars, currentView, quitting>>
            /\ UiFrame

handleMenuNavigate(key, delta) ==
    /\ NavigateActionMenu(delta)
    /\ updates' = 1
    /\ last' = Event("handleMenuNavigate", key)
    /\ UNCHANGED <<showHidden, vpVars, viewerVars, lastMessage, currentView,
                   quitting, openedFrom>>
    /\ UiFrame

handleMenuClose(key) ==
    /\ CloseActionMenu
    /\ lastMessage' = ""
    /\ currentView' = RestoredFocus(previousFocusView)
    /\ updates' = 1
    /\ last' = [wasVisible |-> isActionMenuVisible, returnFocus |-> previousFocusView]
               @@ Event("handleMenuClose", key)
    /\ UNCHANGED <<showHidden, vpVars, viewerVars, quitting, openedFrom>>
    /\ UiFrame

handleMenuSelect(relOk, clipOk, read) ==
    IF actionMenuSelectedIdx < 0 \/ actionMenuSelectedIdx >= Len(actionMenuOptions)
    THEN handleMenuClose("Enter")
    ELSE LET actionLabel == actionMenuOptions[actionMenuSelectedIdx + 1]
             targetItem == actionMenuItemTarget
             actionErr == ActionError(actionLabel, targetItem, relOk, clipOk, read)
         IN /\ CloseActionMenu
            /\ IF actionErr = NoErr /\ actionLabel = "View Content"
               THEN SetFileContentView(targetItem.Name, ViewedContent(read),
                                       ViewerReturnFocus)
               ELSE UNCHANGED viewerVars
            /\ lastMessage' =
                  IF actionErr # NoErr THEN ErrorMessage(actionLabel, actionErr)
                  ELSE IF actionLabel = "View Content" THEN ""
                  ELSE IF actionLabel # "Cancel" THEN SuccessMessage(actionLabel, targetItem)
                  ELSE lastMessage
            /\ updates' = 1
            /\ last' = [label |-> actionLabel, ok |-> actionErr = NoErr,
                        wasVisible |-> isActionMenuVisible,
                        returnFocus |-> previousFocusView]
               @@ Event("handleMenuSelect", "Enter")
            /\ UNCHANGED <<showHidden, vpVars, currentView, quitting, openedFrom>>
            /\ UiFrame

handleCloseFileContentView(key) ==
    /\ CloseFileContentView
    /\ lastMessage' = ""
    /\ currentView' = RestoredFocus(fileContentViewPrevFocus)
    /\ updates' = 1
    /\ last' = [wasVisible |-> isFileContentViewVisible,
                returnFocus |-> fileContentViewPrevFocus]
               @@ Event("handleCloseFileContentView", key)
    /\ UNCHANGED <<showHidden, vpVars, menuVars, quitting, openedFrom>>
    /\ UiFrame

\* The delta handleScrollFileContentView passes to the store.
ScrollDelta(delta, isPageScroll, vh) ==
    LET totalLines == fileContentViewTotalLines
        maxOriginY == IF totalLines - vh < 0 THEN 0 ELSE totalLines - vh
    IN IF isPageScroll /\ delta <= 0 - totalLines THEN 0 - fileContentViewOriginY
       ELSE IF isPageScroll /\ delta >= totalLines THEN maxOriginY - fileContentViewOriginY
       ELSE delta

handleScrollFileContentView(key, delta, isPageScroll) ==
    /\ IF ~isFileContentViewVisible \/ fileContentViewTotalLines <= viewHeight
       THEN UNCHANGED <<viewerVars, updates>>
       ELSE /\ ScrollFileContentView(ScrollDelta(delta, isPageScroll, viewHeight), viewHeight)
            /\ updates' = 1
    /\ last' = Event("handleScrollFileContentView", key)
    /\ UNCHANGED <<showHidden, vpVars, menuVars, lastMessage, currentView,
                   quitting, openedFrom>>
    /\ UiFrame

handleToggleHidden ==
    /\ ToggleHidden
    /\ currentView' = SetCurrentView(viewFolders)
    /\ updates' = 1
    /\ last' = Event("handleToggleHidden", ".")
    /\ UNCHANGED <<menuVars, viewerVars, lastMessage, quitting, openedFrom>>
    /\ UiFrame

handleFocusSwitch ==
    /\ currentView' =
          IF isActionMenuVisible \/ isFileContentViewVisible THEN currentView
          ELSE IF currentView = viewFolders THEN SetCurrentView(viewFiles)
          ELSE SetCurrentView(viewFolders)
    /\ updates' = IF isActionMenuVisible \/ isFileContentViewVisible THEN updates ELSE 1
    /\ last' = Event("handleFocusSwitch", "Tab")
    /\ UNCHANGED <<showHidden, vpVars, menuVars, viewerVars, lastMessage, quitting,
                   openedFrom>>
    /\ UiFrame

Ignored(key) ==
    /\ last' = Event("ignored", key)
    /\ UNCHANGED <<showHidden, vpVars, menuVars, viewerVars, lastMessage, guiVars,
                   openedFrom>>
    /\ UiFrame

quit(key) ==
    /\ quitting' = TRUE
    /\ last' = Event("quit", key)
    /\ UNCHANGED <<showHidden, vpVars, menuVars, viewerVars, lastMessage,
                   currentView, updates, openedFrom>>
    /\ UiFrame

\* ------------------------------------------- keybindings (setupKeybindings)
PageSize == IF viewHeight - 1 < 1 THEN 1 ELSE viewHeight - 1
OnList == currentView \in {viewFolders, viewFiles}

KeyMove ==
    /\ ~quitting /\ OnList
    /\ \E b \in {<<"j", 1>>, <<"k", 0 - 1>>, <<"PgDn", PageSize>>, <<"PgUp", 0 - PageSize>>} :
          handleMoveCursor(b[1], b[2])

KeyTopBottom ==
    /\ ~quitting /\ OnList
    /\ \E b \in {<<"g", TRUE>>, <<"G", FALSE>>} : handleGoTopBottom(b[1], b[2])

KeyEnterList ==
    /\ ~quitting /\ OnList
    /\ handleEnter

KeyMenuNavigate ==
    /\ ~quitting /\ currentView = viewActionMenu
    /\ \E b \in {<<"j", 1>>, <<"k", 0 - 1>>} : handleMenuNavigate(b[1], b[2])

KeyEnterMenu ==
    /\ ~quitting /\ currentView = viewActionMenu
    /\ \E relOk \in BOOLEAN, clipOk \in BOOLEAN, read \in ReadResults :
          handleMenuSelect(relOk, clipOk, read)

KeyEscMenu ==
    /\ ~quitting /\ currentView = viewActionMenu
    /\ handleMenuClose("Esc")

KeyEscViewer ==
    /\ ~quitting /\ currentView = viewFileContent
    /\ handleCloseFileContentView("Esc")

KeyScrollViewer ==
    /\ ~quitting /\ currentView = viewFileContent
    /\ \E b \in {<<"j", 1, FALSE>>, <<"k", 0 - 1, FALSE>>,
                 <<"PgDn", PageSize, TRUE>>, <<"PgUp", 0 - PageSize, TRUE>>,
                 <<"g", 0 - JumpDelta, TRUE>>, <<"G", JumpDelta, TRUE>>} :
          \* line and page keys are followed within MaxScrollDelta lines of the top
          /\ b[1] \in {"g", "G"} \/ fileContentViewOriginY <= MaxScrollDelta
          /\ handleScrollFileContentView(b[1], b[2], b[3])

KeyQQuitsAnywhere ==
    /\ ~quitting
    /\ quit("q")

KeyQ ==
    /\ ~quitting
    /\ IF isFileContentViewVisible THEN handleCloseFileContentView("q")
       ELSE IF isActionMenuVisible THEN handleMenuClose("q")
       ELSE quit("q")

KeyDotUnderOverlay ==
    /\ ~quitting
    /\ handleToggleHidden

KeyDot ==
    /\ ~quitting
    /\ IF isFileContentViewVisible \/ isActionMenuVisible THEN Ignored(".")
       ELSE handleToggleHidden

KeyTab ==
    /\ ~quitting
    /\ IF isFileContentViewVisible \/ isActionMenuVisible THEN Ignored("Tab")
       ELSE handleFocusSwitch

KeyCtrlC ==
    /\ ~quitting
    /\ quit("CtrlC")

\* ------------------------------------------------------- layout (ui.go)
\* updateListView puts the origin of an empty list back to 0.
LayoutOrigins ==
    [k \in VpKeys |->
        IF k \in {VpKey(viewFolders, showHidden), VpKey(viewFiles, showHidden)}
           /\ Len(ListOf(k)) = 0
        THEN 0 ELSE originY[k]]

Layout ==
    /\ ~quitting
    /\ IF isFileContentViewVisible
       THEN /\ views' = views \cup {viewFileContent}
            /\ currentView' = viewFileContent
            /\ UNCHANGED originY
       ELSE /\ views' = IF isActionMenuVisible
                        THEN (views \ {viewFileContent}) \cup {viewActionMenu}
                        ELSE views \ {viewFileContent, viewActionMenu}
            /\ currentView' =
                  IF isActionMenuVisible THEN viewActionMenu
                  ELSE IF currentView \in {viewFolders, viewFiles} THEN currentView
                  ELSE viewFolders
            /\ originY' = LayoutOrigins
    /\ updates' = 0
    /\ drawn' = [menu |-> isActionMenuVisible, viewer |-> isFileContentViewVisible]
    /\ last' = [last EXCEPT !.redrawn = TRUE]
    /\ UNCHANGED <<listVars, showHidden, cursorY, statVars, menuVars, viewerVars,
                   lastMessage, viewHeight, quitting, scanVars, rdVars, openedFrom>>

\* The minimum terminal height layout accepts, and the list views' height in it.
TermMinY == 5
ListViewHeight(maxY) == maxY - 2

Init ==
    /\ NewAppState
    /\ loadDirectoryContents(MaxUiLen)
    /\ viewHeight = ListViewHeight(TermMinY)
    /\ GuiAtRest /\ ScanAtRest /\ ReaderAtRest
    /\ last = Event("init", "")
    /\ drawn = [menu |-> FALSE, viewer |-> FALSE]
    /\ openedFrom = ""

Next ==
    \/ KeyMove \/ KeyTopBottom \/ KeyEnterList
    \/ KeyMenuNavigate \/ KeyEnterMenu \/ KeyEscMenu
    \/ KeyEscViewer \/ KeyScrollViewer
    \/ KeyQ \/ KeyDot \/ KeyTab \/ KeyCtrlC
    \/ Layout

Spec == Init /\ [][Next]_vars

\* ------------------------------------------------------ overlay claims
MenuClosedWithoutViewing ==
    /\ last.wasVisible
    /\ \/ last.op = "handleMenuClose"
       \/ last.op = "handleMenuSelect" /\ last.label # "View Content"

\* C3: when the open menu is closed by a menu action other than View Content,
\* or cancelled with Escape/q, the menu is hidden and, once the next redraw
\* has run, focus is on the view recorded as return focus when it was opened.
C3_MenuCloseRestoresFocus ==
    (MenuClosedWithoutViewing /\ last.redrawn)
        => (~isActionMenuVisible /\ currentView = last.returnFocus)

ViewedSuccessfully ==
    last.op = "handleMenuSelect" /\ last.label = "View Content" /\ last.ok

\* C4: a successful View Content takes the overlay from menu open straight to
\* viewer open, and the viewer's return focus is the list view that had focus
\* when the menu was opened, never the menu view.
C4_ViewContentInheritsFocus ==
    ViewedSuccessfully =>
        /\ last.wasVisible
        /\ isFileContentViewVisible /\ ~isActionMenuVisible
        /\ fileContentViewPrevFocus = openedFrom
        /\ fileContentViewPrevFocus \in {viewFolders, viewFiles}

C4_Witness ==
    /\ ViewedSuccessfully
    /\ isFileContentViewVisible
    /\ fileContentViewPrevFocus = viewFiles
    /\ openedFrom = viewFiles

ViewerClosed == last.op = "handleCloseFileContentView" /\ last.wasVisible

\* C5: closing the content viewer with Escape or q hides it and puts focus on
\* the viewer's return focus, the list view the menu was opened from; the
\* redraw that follows keeps it there unless a menu is open again.
C5_ViewerCloseRestoresFocus ==
    ViewerClosed =>
        /\ ~isFileContentViewVisible
        /\ last.returnFocus = openedFrom
        /\ (~last.redrawn \/ ~isActionMenuVisible) => currentView = last.returnFocus

C5_Witness ==
    /\ ViewerClosed
    /\ last.redrawn
    /\ openedFrom = viewFiles
    /\ currentView = viewFiles

\* C6: the redraw that follows a successful View Content sees the viewer
\* visible and the menu hidden, never the menu gone with no viewer yet.
C6_NoRedrawBetweenOverlays ==
    (ViewedSuccessfully /\ last.redrawn) => (drawn.viewer /\ ~drawn.menu)

C6_Witness ==
    /\ ViewedSuccessfully
    /\ last.redrawn
    /\ drawn = [menu |-> FALSE, viewer |-> TRUE]
    /\ currentView = viewFileContent

\* ========================================================= SpecScan ======
\* The scanner goroutine (calculateStats) beside a redraw of the statistics
\* views, which reads the loading flag and the statistics in two store calls.

\* The tree under the working directory, in the order WalkDir visits it: every
\* entry has a depth below the root, and fails when its directory cannot be
\* read or its file information cannot be fetched.
EntryNames == <<"a", "b", "c", "d", "e">>
FileSizes == {0, 10, 2000}
RootName == "cwd"
Entry(i, isDir, depth, size, fails) ==
    [name |-> EntryNames[i], isDir |-> isDir, depth |-> depth, size |-> size,
     fails |-> fails]

EntriesAt(i) ==
    {Entry(i, TRUE, d, 0, f) : d \in 1..i, f \in BOOLEAN}
        \cup {Entry(i, FALSE, d, sz, f) : d \in 1..i, sz \in FileSizes, f \in BOOLEAN}

\* An entry lies at most one level below a directory that precedes it.
WellNested(t) ==
    \A i \in DOMAIN t :
        IF i = 1 THEN t[i].depth = 1
        ELSE t[i].depth <= t[i - 1].depth + (IF t[i - 1].isDir THEN 1 ELSE 0)

RECURSIVE TreesOfLen(_)
TreesOfLen(n) ==
    IF n = 0 THEN {<<>>}
    ELSE {Append(t, e) : t \in TreesOfLen(n - 1), e \in EntriesAt(n)}

Trees == UNION {{t \in TreesOfLen(n) : WellNested(t)} : n \in 0..MaxEntries}

\* How the root itself answers: readable, gone (Lstat fails), or unreadable
\* (ReadDir fails).
RootOutcomes == {"ok", "lstat", "readdir"}

\* The index WalkDir visits after entry i when fn returned SkipDir for it.
AfterSkipDirAbort(t, i) == Len(t) + 1

AfterSkipDir(t, i) ==
    LET later == {j \in (i + 1)..Len(t) : t[j].depth <= t[i].depth}
    IN IF later = {} THEN Len(t) + 1
       ELSE CHOOSE j \in later : \A k \in later : j <= k

FirstErrReplaced(firstWalkErr, err) == err

\* The first error wins.
FirstErr(firstWalkErr, err) == IF firstWalkErr = NoError THEN err ELSE firstWalkErr

VisitEntryCountingDirs(w, e) ==
    IF e.fails THEN w ELSE [w EXCEPT !.totalSize = @ + e.size + (IF e.isDir THEN 1 ELSE 0)]

\* The walk callback's locals after it has seen entry e.
VisitEntry(w, e) ==
    IF e.isDir
    THEN IF e.fails
         THEN [w EXCEPT !.firstWalkErr =
                  FirstErr(@, "accessing " \o e.name \o ": permission denied")]
         ELSE w
    ELSE IF e.fails
         THEN [w EXCEPT !.firstWalkErr =
                  FirstErr(@, "info for " \o e.name \o ": no such file")]
         ELSE [w EXCEPT !.totalSize = @ + e.size,
                        !.largestFile = IF e.size > @.Size
                                        THEN FileInfo(e.name, FALSE, e.size) ELSE @]

FinalTotalSize(total, firstWalkErr) ==
    IF firstWalkErr # NoError THEN StatsError ELSE total

FinalLargestFileRaw(largest, firstWalkErr) == largest

FinalLargestFile(largest, firstWalkErr) ==
    IF firstWalkErr # NoError
    THEN IF largest.Size = 0 - 1
         THEN FileInfo("Error during scan", FALSE, StatsError) ELSE largest
    ELSE IF largest.Size = 0 - 1 THEN EmptyFileInfo ELSE largest

\* What IsGitRepo and GetGitBranch return: a value and whether err is non-nil.
\* The branch is asked for only in a repository.
RepoResults == {[isRepo |-> FALSE, failed |-> TRUE], [isRepo |-> FALSE, failed |-> FALSE],
                [isRepo |-> TRUE, failed |-> FALSE]}
BranchResults == {[name |-> "", failed |-> TRUE], [name |-> "", failed |-> FALSE],
                  [name |-> "main", failed |-> FALSE]}
NotAsked == [name |-> "", failed |-> FALSE, asked |-> FALSE]
NoQuery == [repo |-> [isRepo |-> FALSE, failed |-> FALSE], branch |-> NotAsked]
GitQueries ==
    {[repo |-> r, branch |-> NotAsked] : r \in {x \in RepoResults : ~x.isRepo}}
        \cup {[repo |-> r, branch |-> b @@ [asked |-> TRUE]] :
                  r \in {x \in RepoResults : x.isRepo}, b \in BranchResults}

GitStatusOfRepoFirst(repo, branch) ==
    IF ~repo.isRepo THEN "Inactive"
    ELSE IF repo.failed THEN "Status Unknown (Error)"
    ELSE IF branch.failed THEN "Active: (Branch Error)"
    ELSE IF branch.name = "" THEN "Active: (Detached HEAD?)"
    ELSE "Active: (" \o branch.name \o ")"

\* The status calculateStats derives from the two answers.
GitStatusOf(repo, branch) ==
    IF repo.failed THEN "Status Unknown (Error)"
    ELSE IF ~repo.isRepo THEN "Inactive"
    ELSE IF branch.failed THEN "Active: (Branch Error)"
    ELSE IF branch.name = "" THEN "Active: (Detached HEAD?)"
    ELSE "Active: (" \o branch.name \o ")"

CommitErrWithGit(firstWalkErr, repo) ==
    IF firstWalkErr = NoError /\ repo.failed THEN "git check failed" ELSE firstWalkErr

CommitErrDropped(firstWalkErr, repo) == NoError

\* The error calculateStats commits: the walk's, whatever git answered.
CommitErr(firstWalkErr, repo) == firstWalkErr

\* What one redraw of a statistics view has read so far.
NoRead ==
    [loading |-> TRUE, total |-> StatsPending, largest |-> EmptyFileInfo,
     git |-> "", err |-> NoError, complete |-> FALSE]

\* AppState.Stats(): the four values under one read lock.
Stats ==
    [total |-> totalSize, largest |-> largestFile, git |-> gitStatus,
     err |-> statsError]

InitScan ==
    /\ NewAppState
    /\ loadDirectoryContents(0)
    /\ viewHeight = MaxHeight
    /\ GuiAtRest
    /\ scanPc = "start"
    /\ \E root \in RootOutcomes, t \in Trees :
          /\ root # "ok" => t = <<>>
          /\ tree = [root |-> root, entries |-> t]
    /\ walk = <<>>
    /\ rdPc = "idle"
    /\ rd = NoRead
    /\ race = NoRace
    /\ mutex = Unlocked
    /\ mem = NoMem
    /\ HistoryAtRest

ScanFrame ==
    UNCHANGED <<listVars, showHidden, vpVars, menuVars, viewerVars, lastMessage,
                currentView, views, quitting, viewHeight, tree, last, histVars>>

\* calculateStats up to the call of WalkDir.
ScanBegin ==
    /\ scanPc = "start"
    /\ SetStatsLoading
    /\ updates' = 1
    /\ walk' = [i |-> 1, totalSize |-> 0, largestFile |-> FileInfo("", FALSE, 0 - 1),
                firstWalkErr |-> NoError, gitStatus |-> "", git |-> NoQuery,
                visited |-> {}]
    /\ scanPc' = "root"
    /\ UNCHANGED rdVars
    /\ ScanFrame

\* WalkDir on the root: Lstat, the callback on the root, ReadDir.
ScanRoot ==
    /\ scanPc = "root"
    /\ walk' = CASE tree.root = "lstat" ->
                      [walk EXCEPT !.firstWalkErr = "accessing entry: no such file"]
                 [] tree.root = "readdir" ->
                      [walk EXCEPT !.firstWalkErr =
                          "accessing " \o RootName \o ": permission denied"]
                 [] OTHER -> walk
    /\ scanPc' = IF tree.root = "ok" THEN "walk" ELSE "walked"
    /\ UNCHANGED <<statVars, updates, rdVars>>
    /\ ScanFrame

\* One call of the walk callback, with the ReadDir that follows for a directory.
ScanVisit ==
    /\ scanPc = "walk"
    /\ walk.i <= Len(tree.entries)
    /\ LET e == tree.entries[walk.i]
           w == VisitEntry(walk, e)
       IN walk' = [w EXCEPT !.i = IF e.isDir /\ e.fails
                                  THEN AfterSkipDir(tree.entries, walk.i)
                                  ELSE walk.i + 1,
                            !.visited = @ \cup {walk.i}]
    /\ UNCHANGED <<scanPc, statVars, updates, rdVars>>
    /\ ScanFrame

\* WalkDir returns; the callback never returns an error of its own.
ScanWalked ==
    /\ scanPc = "walk"
    /\ walk.i > Len(tree.entries)
    /\ scanPc' = "walked"
    /\ UNCHANGED <<walk, statVars, updates, rdVars>>
    /\ ScanFrame

\* IsGitRepo and GetGitBranch.
ScanGit ==
    /\ scanPc = "walked"
    /\ \E q \in GitQueries :
          walk' = [walk EXCEPT !.git = q, !.gitStatus = GitStatusOf(q.repo, q.branch)]
    /\ scanPc' = "git"
    /\ UNCHANGED <<statVars, updates, rdVars>>
    /\ ScanFrame

ScanCommitWithoutUpdate ==
    /\ scanPc = "git"
    /\ SetStatsResults(FinalTotalSize(walk.totalSize, walk.firstWalkErr),
                       FinalLargestFile(walk.largestFile, walk.firstWalkErr),
                       walk.gitStatus, CommitErr(walk.firstWalkErr, walk.git.repo))
    /\ scanPc' = "done"
    /\ UNCHANGED <<updates, walk, rdVars>>
    /\ ScanFrame

ScanCommitThenRestart ==
    /\ scanPc = "git"
    /\ SetStatsResults(FinalTotalSize(walk.totalSize, walk.firstWalkErr),
                       FinalLargestFile(walk.largestFile, walk.firstWalkErr),
                       walk.gitStatus, CommitErr(walk.firstWalkErr, walk.git.repo))
    /\ updates' = 1
    /\ scanPc' = "start"
    /\ UNCHANGED <<walk, rdVars>>
    /\ ScanFrame

\* calculateStats from the call of SetStatsResults to its return.
ScanCommit ==
    /\ scanPc = "git"
    /\ SetStatsResults(FinalTotalSize(walk.totalSize, walk.firstWalkErr),
                       FinalLargestFile(walk.largestFile, walk.firstWalkErr),
                       walk.gitStatus, CommitErr(walk.firstWalkErr, walk.git.repo))
    /\ updates' = 1
    /\ scanPc' = "done"
    /\ UNCHANGED <<walk, rdVars>>
    /\ ScanFrame

\* updateSizeView and its siblings: state.IsLoadingStats() ...
ReadLoading ==
    /\ rdPc = "idle"
    /\ rd' = [NoRead EXCEPT !.loading = isLoadingStats]
    /\ rdPc' = "stats"
    /\ UNCHANGED <<statVars, updates, scanPc, walk, race, mutex, mem>>
    /\ ScanFrame

\* ... then state.Stats().
ReadStats ==
    /\ rdPc = "stats"
    /\ rd' = [loading |-> rd.loading, total |-> Stats.total, largest |-> Stats.largest,
              git |-> Stats.git, err |-> Stats.err, complete |-> TRUE]
    /\ rdPc' = "idle"
    /\ UNCHANGED <<statVars, updates, scanPc, walk, race, mutex, mem>>
    /\ ScanFrame

NextScan ==
    \/ ScanBegin \/ ScanRoot \/ ScanVisit \/ ScanWalked \/ ScanGit \/ ScanCommit
    \/ ReadLoading \/ ReadStats

SpecScan == InitScan /\ [][NextScan]_vars

\* --------------------------------------------------------- scan claims
\* The statistics a Stats() call can return: those of the store as constructed,
\* those after SetStatsLoading, and those the scanner commits.
ConstructedStats ==
    [total |-> StatsPending, largest |-> EmptyFileInfo, git |-> "Checking...",
     err |-> NoError]
LoadingStats ==
    [total |-> StatsPending, largest |-> EmptyFileInfo, git |-> "Calculating...",
     err |-> NoError]
CommittedStats ==
    [total |-> FinalTotalSize(walk.totalSize, walk.firstWalkErr),
     largest |-> FinalLargestFile(walk.largestFile, walk.firstWalkErr),
     git |-> walk.gitStatus, err |-> walk.firstWalkErr]
StatsRead == [total |-> rd.total, largest |-> rd.largest, git |-> rd.git, err |-> rd.err]

\* C8: the statistics one Stats() call returns are those of a single store
\* state (constructed, loading, or committed), never a part of each; and a
\* redraw that read the loading flag as false reads the committed statistics,
\* never the pending sentinel.
C8_StatsReadIsOneState ==
    rd.complete =>
        /\ \/ StatsRead = ConstructedStats
           \/ StatsRead = LoadingStats
           \/ scanPc = "done" /\ StatsRead = CommittedStats
        /\ ~rd.loading => (scanPc = "done" /\ StatsRead = CommittedStats
                           /\ rd.total # StatsPending)

C8_Witness ==
    /\ rd.complete /\ ~rd.loading
    /\ rd.total = 2010
    /\ rd.largest = FileInfo("b", FALSE, 2000)
    /\ rd.err = NoError

\* C8 as stated: the loading flag and the statistics one redraw uses are of
\* one store state, so loading goes with the pending total and only with it.
C8_RenderingIsOneState ==
    rd.complete => (rd.loading <=> rd.total = StatsPending)

\* What the tree holds, told from the tree alone.
Skipped(t, i) ==
    \E j \in 1..(i - 1) :
        /\ t[j].isDir /\ t[j].fails /\ t[j].depth < t[i].depth
        /\ \A k \in (j + 1)..i : t[k].depth > t[j].depth
Visited(t) == {i \in DOMAIN t : ~Skipped(t, i)}
Failing(t) == {i \in Visited(t) : t[i].fails}
ReadFiles(t) == {i \in Visited(t) : ~t[i].isDir /\ ~t[i].fails}
LargestRead(t) == {i \in ReadFiles(t) : \A k \in ReadFiles(t) : t[k].size <= t[i].size}
FirstFailing(t) == CHOOSE i \in Failing(t) : \A k \in Failing(t) : i <= k
ErrorNames(err, name) ==
    err \in {"accessing " \o name \o ": permission denied",
             "info for " \o name \o ": no such file"}

\* C9: when the walk met an error and read at least one file, the committed
\* total is the error sentinel, the largest file is the largest file read in
\* the whole tree, after the failing entry as well as before it, and the
\* recorded error names the first failing entry.
C9_ErrorKeepsLargestFile ==
    (scanPc = "done" /\ Failing(tree.entries) # {} /\ ReadFiles(tree.entries) # {})
        => /\ totalSize = StatsError
           /\ \E i \in LargestRead(tree.entries) :
                 largestFile = FileInfo(tree.entries[i].name, FALSE, tree.entries[i].size)
           /\ statsError # NoError
           /\ ErrorNames(statsError, tree.entries[FirstFailing(tree.entries)].name)

\* C9 witness: an unreadable directory first, a larger file after it.
C9_Witness ==
    /\ scanPc = "done"
    /\ Len(tree.entries) = 3
    /\ tree.entries[1].isDir /\ tree.entries[1].fails
    /\ tree.entries[2].depth = 2
    /\ tree.entries[3].depth = 1
    /\ largestFile = FileInfo("c", FALSE, 2000)
    /\ totalSize = StatsError

NothingRead == tree.root # "ok" \/ ReadFiles(tree.entries) = {}
ScanFailed == tree.root # "ok" \/ Failing(tree.entries) # {}

\* C10: the committed largest file is the largest file read; when no file was
\* read it is the empty FileInfo if the walk met no error, and the marker
\* named "Error during scan" with size -2 if it met one.
C10_LargestFileOrMarker ==
    scanPc = "done" =>
        IF ~NothingRead
        THEN \E i \in LargestRead(tree.entries) :
                 largestFile = FileInfo(tree.entries[i].name, FALSE, tree.entries[i].size)
        ELSE IF ScanFailed
             THEN largestFile = FileInfo("Error during scan", FALSE, StatsError)
             ELSE largestFile = EmptyFileInfo

C10_Witness ==
    /\ scanPc = "done"
    /\ NothingRead /\ ScanFailed
    /\ Len(tree.entries) = 2
    /\ largestFile.Name = "Error during scan"

\* C10 as stated: the empty FileInfo whenever no file was read, error or not.
C10_EmptyMarkerRegardless ==
    (scanPc = "done" /\ NothingRead) => largestFile = EmptyFileInfo

\* ------------------------------------------------- scan claims, continued
CleanWalk == tree.root = "ok" /\ Failing(tree.entries) = {}

\* C11: a tree with no files, walked without an error, commits total size 0,
\* the empty FileInfo as largest file, no error, and the status "Inactive"
\* when the directory is not a repository.
C11_EmptyTreeResult ==
    (scanPc = "done" /\ CleanWalk /\ \A i \in DOMAIN tree.entries : tree.entries[i].isDir)
        => /\ totalSize = 0
           /\ largestFile = EmptyFileInfo
           /\ statsError = NoError
           /\ (~walk.git.repo.isRepo /\ ~walk.git.repo.failed) => gitStatus = "Inactive"

\* C11 witness: a tree of two empty directories outside any repository.
C11_Witness ==
    /\ scanPc = "done" /\ CleanWalk
    /\ Len(tree.entries) = 2
    /\ tree.entries[1].isDir /\ tree.entries[2].isDir
    /\ ~walk.git.repo.isRepo /\ ~walk.git.repo.failed
    /\ gitStatus = "Inactive"
    /\ totalSize = 0

\* C12: the committed status is decided by the answers of the two git queries
\* alone, in this order: repository check failed, not a repository, branch
\* query failed, empty branch name, branch name; nothing else is committed.
C12_StatusFromQueries ==
    scanPc = "done" =>
        LET q == walk.git
        IN /\ q.repo.failed => gitStatus = "Status Unknown (Error)"
           /\ (~q.repo.failed /\ ~q.repo.isRepo) => gitStatus = "Inactive"
           /\ (~q.repo.failed /\ q.repo.isRepo /\ q.branch.failed)
                 => gitStatus = "Active: (Branch Error)"
           /\ (~q.repo.failed /\ q.repo.isRepo /\ ~q.branch.failed /\ q.branch.name = "")
                 => gitStatus = "Active: (Detached HEAD?)"
           /\ (~q.repo.failed /\ q.repo.isRepo /\ ~q.branch.failed /\ q.branch.name # "")
                 => gitStatus = "Active: (" \o q.branch.name \o ")"
           /\ gitStatus \in {"Status Unknown (Error)", "Inactive", "Active: (Branch Error)",
                             "Active: (Detached HEAD?)", "Active: (main)"}

\* C12 witness: the repository check failed on a tree whose walk failed too.
C12_Witness ==
    /\ scanPc = "done"
    /\ walk.git.repo.failed
    /\ gitStatus = "Status Unknown (Error)"
    /\ totalSize = StatsError

RECURSIVE SumSizes(_, _)
SumSizes(t, is) ==
    IF is = {} THEN 0
    ELSE LET i == CHOOSE x \in is : TRUE IN t[i].size + SumSizes(t, is \ {i})

GitFailed == walk.git.repo.failed \/ walk.git.branch.failed

\* C13: a failing git query never fails the scan: the committed error is nil
\* exactly when the walk met no error, and a clean walk commits the sum of the
\* file sizes, whatever the git queries answered.
C13_GitNeverFailsScan ==
    scanPc = "done" =>
        /\ statsError = NoError <=> CleanWalk
        /\ CleanWalk => (totalSize = SumSizes(tree.entries, ReadFiles(tree.entries))
                         /\ totalSize >= 0)

\* C13 witness: two files walked cleanly while the repository check failed.
C13_Witness ==
    /\ scanPc = "done" /\ CleanWalk
    /\ walk.git.repo.failed
    /\ statsError = NoError
    /\ totalSize = 2010

\* C14: an error does not end the walk: the callback is called for every
\* entry outside a failed directory, siblings after the failure included, for
\* no entry inside one, and the committed error is that of the first failing
\* entry in walk order.
C14_FirstErrorWalkGoesOn ==
    (scanPc = "done" /\ tree.root = "ok") =>
        /\ walk.visited = Visited(tree.entries)
        /\ Failing(tree.entries) # {}
              => ErrorNames(statsError, tree.entries[FirstFailing(tree.entries)].name)

\* C14 witness: a failed directory, its child skipped, a failing file after it.
C14_Witness ==
    /\ scanPc = "done" /\ tree.root = "ok"
    /\ Len(tree.entries) = 3
    /\ tree.entries[1].isDir /\ tree.entries[1].fails
    /\ tree.entries[2].depth = 2
    /\ ~tree.entries[3].isDir /\ tree.entries[3].fails /\ tree.entries[3].depth = 1
    /\ walk.visited = {1, 3}
    /\ statsError = "accessing a: permission denied"

\* ====================================================== SpecOverlay ======
\* The store's menu and content view operations, called with any arguments.
AllLabels == <<"Copy Full Path", "Copy Relative Path", "View Content",
               "Copy Content (UTF-8)", "Cancel">>
OptionLists == {SubSeq(AllLabels, 1, n) : n \in 0..MaxOptions}
NavDeltas == (0 - (MaxOptions + 1))..(MaxOptions + 1)
ScrollDeltas == (0 - MaxScrollDelta)..MaxScrollDelta
FocusNames == {viewFolders, viewFiles}

InitOverlay ==
    /\ NewAppState
    /\ loadDirectoryContents(0)
    /\ viewHeight \in Heights
    /\ GuiAtRest /\ ScanAtRest /\ ReaderAtRest /\ HistoryAtRest

OverlayFrame ==
    UNCHANGED <<listVars, showHidden, vpVars, statVars, guiVars, viewHeight,
                scanVars, rdVars, histVars>>

CallOpenActionMenu ==
    \E options \in OptionLists, focus \in FocusNames :
        /\ OpenActionMenu(FileInfo("fa", FALSE, 0), options, focus)
        /\ last' = [op |-> "OpenActionMenu", delta |-> 0]
        /\ UNCHANGED viewerVars
        /\ OverlayFrame

CallCloseActionMenu ==
    /\ CloseActionMenu
    /\ last' = [op |-> "CloseActionMenu", delta |-> 0]
    /\ UNCHANGED <<viewerVars, lastMessage>>
    /\ OverlayFrame

CallNavigateActionMenu ==
    \E delta \in NavDeltas :
        /\ NavigateActionMenu(delta)
        /\ last' = [op |-> "NavigateActionMenu", delta |-> delta]
        /\ UNCHANGED <<viewerVars, lastMessage>>
        /\ OverlayFrame

CallSetFileContentView ==
    \E content \in SmallTexts \cup {EmptyText, Text(<<"x", NL>>, 1)}, focus \in FocusNames :
        /\ SetFileContentView("fa", content, focus)
        /\ last' = [op |-> "SetFileContentView", delta |-> 0]
        /\ UNCHANGED <<menuVars, lastMessage>>
        /\ OverlayFrame

CallCloseFileContentView ==
    /\ CloseFileContentView
    /\ last' = [op |-> "CloseFileContentView", delta |-> 0]
    /\ UNCHANGED <<menuVars, lastMessage>>
    /\ OverlayFrame

CallScrollFileContentView ==
    \E delta \in ScrollDeltas :
        /\ ScrollFileContentView(delta, viewHeight)
        /\ last' = [op |-> "ScrollFileContentView", delta |-> delta]
        /\ UNCHANGED <<menuVars, lastMessage>>
        /\ OverlayFrame

NextOverlay ==
    \/ CallOpenActionMenu \/ CallCloseActionMenu \/ CallNavigateActionMenu
    \/ CallSetFileContentView \/ CallCloseFileContentView \/ CallScrollFileContentView

SpecOverlay == InitOverlay /\ [][NextOverlay]_vars

\* C15: with the menu visible and at least one option, NavigateActionMenu(+1)
\* on the last option selects option 0, NavigateActionMenu(-1) on option 0
\* selects the last, and a delta that stays inside the list moves the index by
\* it; with the menu hidden or no option the call changes nothing.
C15_MenuNavigationWraps ==
    [][last'.op = "NavigateActionMenu" =>
          LET n == Len(actionMenuOptions)
              d == last'.delta
              idx == actionMenuSelectedIdx
          IN IF isActionMenuVisible /\ n >= 1
             THEN /\ (d = 1 /\ idx = n - 1) => actionMenuSelectedIdx' = 0
                  /\ (d = 0 - 1 /\ idx = 0) => actionMenuSelectedIdx' = n - 1
                  /\ (idx + d >= 0 /\ idx + d < n) => actionMenuSelectedIdx' = idx + d
                  /\ UNCHANGED <<isActionMenuVisible, actionMenuItemTarget,
                                 actionMenuOptions, previousFocusView>>
             ELSE UNCHANGED menuVars]_vars

\* C15 witness: +1 on the last of three options has wrapped to option 0.
C15_Witness ==
    /\ last.op = "NavigateActionMenu" /\ last.delta = 1
    /\ isActionMenuVisible
    /\ Len(actionMenuOptions) = 3
    /\ actionMenuSelectedIdx = 0

MaxOriginY == Max(0, fileContentViewTotalLines - viewHeight)

\* C16: on an open viewer the scroll origin stays within
\* 0..max(0, total lines - height) through any calls of ScrollFileContentView;
\* a delta that would take it below 0 leaves 0, one that would take it past
\* the maximum leaves the maximum.
C16_ViewerScrollClamps ==
    [][last'.op = "ScrollFileContentView" /\ isFileContentViewVisible =>
          LET target == fileContentViewOriginY + last'.delta
          IN /\ fileContentViewOriginY' >= 0
             /\ fileContentViewOriginY' <= MaxOriginY
             /\ target < 0 => fileContentViewOriginY' = 0
             /\ target > MaxOriginY => fileContentViewOriginY' = MaxOriginY
             /\ (target >= 0 /\ target <= MaxOriginY) => fileContentViewOriginY' = target
             /\ UNCHANGED fileContentViewTotalLines]_vars

\* C16 witness: a scroll past the end of a text longer than the view has
\* stopped at total lines - height.
C16_Witness ==
    /\ last.op = "ScrollFileContentView" /\ last.delta = MaxScrollDelta
    /\ isFileContentViewVisible
    /\ viewHeight >= 1
    /\ fileContentViewTotalLines > viewHeight + 1
    /\ fileContentViewOriginY = fileContentViewTotalLines - viewHeight

\* C17: in the content viewer G and End put the scroll origin at
\* max(0, total lines - height) and g and Home put it at 0, from any origin
\* and for every file the viewer accepts, however many lines it has.
C17_JumpKeysReachEnds ==
    (last.op = "handleScrollFileContentView" /\ isFileContentViewVisible)
        => /\ last.key = "G" => fileContentViewOriginY = MaxOriginY
           /\ last.key = "g" => fileContentViewOriginY = 0

\* ------------------------------------------ viewport claims, continued
\* The viewport a call named in last' acts on, "" when it names no list.
CalledKey == VpKey(last'.viewName, showHidden)

\* C18: moveCursorAndOrigin with delta 0 on a viewport that satisfies the
\* viewport invariant for the height passed returns changed = false and
\* leaves cursor and origin as they were.
C18_MoveByZeroChangesNothing ==
    [][(/\ last'.op = "moveCursorAndOrigin" /\ last'.arg = 0
        /\ CalledKey # ""
        /\ ViewportInv(CalledKey, viewHeight))
       => (~last'.changed /\ cursorY' = cursorY /\ originY' = originY)]_vars

\* C18 witness: delta 0 on a scrolled viewport, cursor below the first row.
C18_Witness ==
    /\ last.op = "moveCursorAndOrigin" /\ last.arg = 0 /\ ~last.changed
    /\ viewHeight >= 1
    /\ VpKey(last.viewName, showHidden) # ""
    /\ originY[VpKey(last.viewName, showHidden)] > 0
    /\ cursorY[VpKey(last.viewName, showHidden)] > originY[VpKey(last.viewName, showHidden)]

\* A call of setCursorAndOrigin whose target lies in the window the viewport
\* shows before the call.
JumpInsideView ==
    /\ last'.op = "setCursorAndOrigin"
    /\ CalledKey # ""
    /\ last'.arg >= originY[CalledKey]
    /\ last'.arg < originY[CalledKey] + viewHeight

\* C19: setCursorAndOrigin to a target inside [origin, origin + height), on a
\* viewport that satisfies the viewport invariant for the height passed,
\* leaves the origin as it was; only the cursor moves, to the target when the
\* list has that index.
C19_JumpInsideViewKeepsOrigin ==
    [][(JumpInsideView /\ ViewportInv(CalledKey, viewHeight))
       => /\ originY' = originY
          /\ last'.arg < Len(ListOf(CalledKey)) => cursorY'[CalledKey] = last'.arg
          /\ \A k \in VpKeys \ {CalledKey} : cursorY'[k] = cursorY[k]]_vars

\* C19 witness: in a view of two rows over three entries the cursor has
\* jumped from row 2 to row 1 with the origin still at 1, where a jump from
\* outside the view would have put the origin at 0.
C19_Witness ==
    /\ last.op = "setCursorAndOrigin" /\ last.arg = 1 /\ last.changed
    /\ viewHeight = 2
    /\ VpKey(last.viewName, showHidden) # ""
    /\ Len(ListOf(VpKey(last.viewName, showHidden))) = 3
    /\ originY[VpKey(last.viewName, showHidden)] = 1
    /\ cursorY[VpKey(last.viewName, showHidden)] = 1

\* C19 as stated: setCursorAndOrigin to a target inside [origin,
\* origin + height) never changes the origin, whatever the viewport.
C19_JumpInsideViewNeverMovesOrigin ==
    [][JumpInsideView => originY' = originY]_vars

\* C20: SetDirectoryContents installs the four lists it is given and leaves
\* cursor and origin of all four viewports at 0, whatever they were and
\* whatever the hidden flag is; the hidden flag is as it was.
C20_ReloadResetsEveryViewport ==
    [][last'.op = "SetDirectoryContents"
       => /\ listVars' = last'.given
          /\ \A k \in VpKeys : cursorY'[k] = 0 /\ originY'[k] = 0
          /\ showHidden' = showHidden]_vars

\* C20 witness: hidden entries shown, a scrolled viewport, and a reload with
\* another listing that has hidden entries in both lists.
C20_Witness ==
    /\ last.op = "SetDirectoryContents"
    /\ last.moved /\ last.replaced
    /\ showHidden
    /\ hiddenDirs # <<>> /\ hiddenFiles # <<>>

\* C21: ToggleHidden flips the hidden flag and returns the new value; a second
\* call directly after the first brings the flag back to what it was before
\* the first; every call leaves cursor and origin of all four viewports at 0
\* and the four lists as they were.
C21_ToggleHiddenTwiceRestores ==
    [][last'.op = "ToggleHidden"
       => /\ showHidden' = ~showHidden
          /\ last'.returned = showHidden'
          /\ \A k \in VpKeys : cursorY'[k] = 0 /\ originY'[k] = 0
          /\ listVars' = listVars
          /\ last.op = "ToggleHidden" => showHidden' = last.was]_vars

\* C21 witness: a viewport was moved, then ToggleHidden was called twice in a
\* row.
C21_Witness ==
    /\ last.op = "ToggleHidden"
    /\ last.twice /\ last.moved
    /\ last.returned = showHidden

\* ------------------------------------------------- menu and key claims
\* Enter has just opened the menu.
MenuJustOpened == last.op = "handleEnter" /\ last.opened

\* C22: the menu opened on a directory offers "Copy Full Path", "Copy Relative
\* Path", "Cancel" in that order; opened on a file it offers "Copy Full Path",
\* "Copy Relative Path", "View Content", "Copy Content (UTF-8)", "Cancel".
C22_MenuOptionsByItemKind ==
    MenuJustOpened
        => /\ isActionMenuVisible
           /\ actionMenuOptions =
                IF actionMenuItemTarget.IsDir
                THEN <<"Copy Full Path", "Copy Relative Path", "Cancel">>
                ELSE <<"Copy Full Path", "Copy Relative Path", "View Content",
                       "Copy Content (UTF-8)", "Cancel">>

\* C22 witness: the menu opened on a file, from the files list.
C22_Witness ==
    /\ MenuJustOpened
    /\ ~actionMenuItemTarget.IsDir
    /\ previousFocusView = viewFiles
    /\ Len(actionMenuOptions) = 5

\* C22 as stated: the two options a file adds are labelled "View Content" and
\* "Copy Content".
C22_FileOptionsAsNamed ==
    (MenuJustOpened /\ ~actionMenuItemTarget.IsDir)
        => \E i \in 1..Len(actionMenuOptions) : actionMenuOptions[i] = "Copy Content"

\* The step is the handling of key k (a redraw keeps the record of the last
\* key and marks it redrawn).
KeyStep(k) == last'.key = k /\ ~last'.redrawn

\* C23: q quits only when no overlay is open. With the viewer visible it
\* closes the viewer and does not quit; with the menu visible and no viewer it
\* closes the menu and does not quit; the other overlay is left as it is.
C23_QClosesOneOverlayOrQuits ==
    [][KeyStep("q")
       => /\ isFileContentViewVisible
               => /\ ~isFileContentViewVisible'
                  /\ isActionMenuVisible' = isActionMenuVisible
                  /\ ~quitting'
          /\ (~isFileContentViewVisible /\ isActionMenuVisible)
               => /\ ~isActionMenuVisible'
                  /\ ~isFileContentViewVisible'
                  /\ ~quitting'
          /\ (~isFileContentViewVisible /\ ~isActionMenuVisible) => quitting'
          /\ quitting' => (~isFileContentViewVisible /\ ~isActionMenuVisible)]_vars

\* C23 witness: q has closed the viewer and the application goes on.
C23_Witness ==
    /\ last.key = "q"
    /\ last.op = "handleCloseFileContentView" /\ last.wasVisible
    /\ ~isFileContentViewVisible
    /\ ~quitting

\* C24: while the menu or the viewer is visible the hidden-toggle key and Tab
\* change neither the hidden flag nor any cursor or origin nor the focused
\* view; with no overlay open Tab moves the focus from folders to files and
\* from files to folders.
C24_ToggleAndTabIgnoredUnderOverlay ==
    [][/\ ((KeyStep(".") \/ KeyStep("Tab"))
              /\ (isActionMenuVisible \/ isFileContentViewVisible))
           => /\ showHidden' = showHidden
              /\ cursorY' = cursorY /\ originY' = originY
              /\ currentView' = currentView
       /\ (KeyStep("Tab") /\ ~isActionMenuVisible /\ ~isFileContentViewVisible)
           => /\ currentView = viewFolders => currentView' = viewFiles
              /\ currentView = viewFiles => currentView' = viewFolders
              /\ currentView' \in {viewFolders, viewFiles}]_vars

\* C24 witness: hidden entries are shown, the viewer is open over the files
\* list, and the hidden-toggle key was pressed.
C24_Witness ==
    /\ last.key = "." /\ last.op = "ignored"
    /\ isFileContentViewVisible
    /\ showHidden
    /\ fileContentViewPrevFocus = viewFiles

\* ========================================================= SpecRace ======
\* One call of the interface thread and one call of the scanner goroutine on
\* the same store, in both orders.  Each call runs under the store's mutex,
\* so the two calls are serialised one way or the other; the store after
\* "interface call, then scanner call" is kept, the store is put back to
\* where the pair started, and the pair is run the other way round.
MaxRounds == 2

\* The fields of AppState the calls write.
Store ==
    [visibleDirs |-> visibleDirs, visibleFiles |-> visibleFiles,
     hiddenDirs |-> hiddenDirs, hiddenFiles |-> hiddenFiles,
     showHidden |-> showHidden, originY |-> originY, cursorY |-> cursorY,
     totalSize |-> totalSize, largestFile |-> largestFile, gitStatus |-> gitStatus,
     isLoadingStats |-> isLoadingStats, statsError |-> statsError,
     isActionMenuVisible |-> isActionMenuVisible,
     actionMenuItemTarget |-> actionMenuItemTarget,
     actionMenuOptions |-> actionMenuOptions,
     actionMenuSelectedIdx |-> actionMenuSelectedIdx,
     previousFocusView |-> previousFocusView,
     isFileContentViewVisible |-> isFileContentViewVisible,
     fileContentViewFileName |-> fileContentViewFileName,
     fileContentViewContent |-> fileContentViewContent,
     fileContentViewTotalLines |-> fileContentViewTotalLines,
     fileContentViewOriginY |-> fileContentViewOriginY,
     fileContentViewPrevFocus |-> fileContentViewPrevFocus,
     lastMessage |-> lastMessage]

\* The store is put back to the value st.
StoreBecomes(st) ==
    /\ visibleDirs' = st.visibleDirs /\ visibleFiles' = st.visibleFiles
    /\ hiddenDirs' = st.hiddenDirs /\ hiddenFiles' = st.hiddenFiles
    /\ showHidden' = st.showHidden /\ originY' = st.originY /\ cursorY' = st.cursorY
    /\ totalSize' = st.totalSize /\ largestFile' = st.largestFile
    /\ gitStatus' = st.gitStatus /\ isLoadingStats' = st.isLoadingStats
    /\ statsError' = st.statsError
    /\ isActionMenuVisible' = st.isActionMenuVisible
    /\ actionMenuItemTarget' = st.actionMenuItemTarget
    /\ actionMenuOptions' = st.actionMenuOptions
    /\ actionMenuSelectedIdx' = st.actionMenuSelectedIdx
    /\ previousFocusView' = st.previousFocusView
    /\ isFileContentViewVisible' = st.isFileContentViewVisible
    /\ fileContentViewFileName' = st.fileContentViewFileName
    /\ fileContentViewContent' = st.fileContentViewContent
    /\ fileContentViewTotalLines' = st.fileContentViewTotalLines
    /\ fileContentViewOriginY' = st.fileContentViewOriginY
    /\ fileContentViewPrevFocus' = st.fileContentViewPrevFocus
    /\ lastMessage' = st.lastMessage

\* The calls of the interface thread, with their arguments.
UiWrites ==
    {[op |-> "ToggleHidden"], [op |-> "CloseActionMenu"],
     [op |-> "CloseFileContentView"], [op |-> "ClearMessage"]}
    \cup {[op |-> "SetDirectoryContents", n |-> n] : n \in {0, MaxUiLen}}
    \cup {[op |-> "moveCursorAndOrigin", viewName |-> v, arg |-> d] :
            v \in FocusNames, d \in {0 - 1, 1}}
    \cup {[op |-> "setCursorAndOrigin", viewName |-> v, arg |-> t] :
            v \in FocusNames, t \in {0, MaxLen - 1}}
    \cup {[op |-> "OpenActionMenu", item |-> i, focus |-> viewFiles] :
            i \in {FileInfo("fa", FALSE, 0)}}
    \cup {[op |-> "NavigateActionMenu", arg |-> d] : d \in {0 - 1, 1}}
    \cup {[op |-> "SetFileContentView", content |-> c] :
            c \in {Text(<<"x">>, 1), LongText}}
    \cup {[op |-> "ScrollFileContentView", arg |-> d] : d \in {0 - 1, 1}}
    \cup {[op |-> "SetMessage", msg |-> "Error: clipboard unavailable"]}

\* The calls of the scanner goroutine, with their arguments.
ScanWrites ==
    {[op |-> "SetStatsLoading"]}
    \cup {[op |-> "SetStatsResults", total |-> t, largest |-> FileInfo("fa", FALSE, 1),
           git |-> "Inactive", err |-> e] :
            t \in {0, MaxTotal}, e \in ErrInputs}

\* One call of the interface thread; the fields it does not name stay.
UiWrite(u) ==
    /\ UNCHANGED statVars
    /\ CASE u.op = "ToggleHidden" ->
              /\ ToggleHidden
              /\ UNCHANGED <<listVars, menuVars, viewerVars, lastMessage>>
         [] u.op = "SetDirectoryContents" ->
              /\ SetDirectoryContents(Listing(DirNames, TRUE, u.n),
                                      Listing(FileNames, FALSE, u.n),
                                      Listing(HiddenDirNames, TRUE, u.n),
                                      Listing(HiddenFileNames, FALSE, u.n))
              /\ UNCHANGED <<menuVars, viewerVars, lastMessage>>
         [] u.op = "moveCursorAndOrigin" ->
              /\ moveCursorAndOrigin(u.viewName, u.arg, viewHeight)
              /\ UNCHANGED <<listVars, showHidden, menuVars, viewerVars, lastMessage>>
         [] u.op = "setCursorAndOrigin" ->
              /\ setCursorAndOrigin(u.viewName, u.arg, viewHeight)
              /\ UNCHANGED <<listVars, showHidden, menuVars, viewerVars, lastMessage>>
         [] u.op = "OpenActionMenu" ->
              /\ OpenActionMenu(u.item, MenuOptions(u.item), u.focus)
              /\ UNCHANGED <<listVars, showHidden, vpVars, viewerVars>>
         [] u.op = "CloseActionMenu" ->
              /\ CloseActionMenu
              /\ UNCHANGED <<listVars, showHidden, vpVars, viewerVars, lastMessage>>
         [] u.op = "NavigateActionMenu" ->
              /\ NavigateActionMenu(u.arg)
              /\ UNCHANGED <<listVars, showHidden, vpVars, viewerVars, lastMessage>>
         [] u.op = "SetFileContentView" ->
              /\ SetFileContentView("fa", u.content, viewFiles)
              /\ UNCHANGED <<listVars, showHidden, vpVars, menuVars, lastMessage>>
         [] u.op = "CloseFileContentView" ->
              /\ CloseFileContentView
              /\ UNCHANGED <<listVars, showHidden, vpVars, menuVars, lastMessage>>
         [] u.op = "ScrollFileContentView" ->
              /\ ScrollFileContentView(u.arg, viewHeight)
              /\ UNCHANGED <<listVars, showHidden, vpVars, menuVars, lastMessage>>
         [] u.op = "SetMessage" ->
              /\ SetMessage(u.msg)
              /\ UNCHANGED <<listVars, showHidden, vpVars, menuVars, viewerVars>>
         [] u.op = "ClearMessage" ->
              /\ ClearMessage
              /\ UNCHANGED <<listVars, showHidden, vpVars, menuVars, viewerVars>>

\* One call of the scanner goroutine.
ScanWrite(w) ==
    /\ UNCHANGED <<listVars, showHidden, vpVars, menuVars, viewerVars, lastMessage>>
    /\ CASE w.op = "SetStatsLoading" -> SetStatsLoading
         [] w.op = "SetStatsResults" ->
              SetStatsResults(w.total, w.largest, w.git, w.err)

InitRace ==
    /\ NewAppState
    /\ loadDirectoryContents(MaxLen)
    /\ viewHeight = MaxHeight - 1
    /\ GuiAtRest /\ ScanAtRest /\ ReaderAtRest /\ HistoryAtRest

RaceFrame == UNCHANGED <<guiVars, viewHeight, scanVars, rdPc, rd, mutex, mem, histVars>>

\* A pair of calls starts: the interface thread gets the mutex first.
RaceUiFirst ==
    /\ race.phase = "idle" /\ race.round < MaxRounds
    /\ \E u \in UiWrites, w \in ScanWrites :
          /\ UiWrite(u)
          /\ race' = [phase |-> "ui", round |-> race.round + 1, ui |-> u, scan |-> w,
                      start |-> Store]
    /\ last' = [op |-> "RaceUiFirst"]
    /\ RaceFrame

RaceScanSecond ==
    /\ race.phase = "ui"
    /\ ScanWrite(race.scan)
    /\ race' = [race EXCEPT !.phase = "ui-scan"]
    /\ last' = [op |-> "RaceScanSecond"]
    /\ RaceFrame

\* The same pair from the same store, the scanner first.
RaceScanFirst ==
    /\ race.phase = "ui-scan"
    /\ race' = [phase |-> "scan", round |-> race.round, ui |-> race.ui,
                scan |-> race.scan, start |-> race.start, uiFirst |-> Store]
    /\ StoreBecomes(race.start)
    /\ last' = [op |-> "RaceScanFirst"]
    /\ RaceFrame

RaceScanFirstCall ==
    /\ race.phase = "scan"
    /\ ScanWrite(race.scan)
    /\ race' = [race EXCEPT !.phase = "scan-called"]
    /\ last' = [op |-> "RaceScanFirstCall"]
    /\ RaceFrame

RaceUiSecond ==
    /\ race.phase = "scan-called"
    /\ UiWrite(race.ui)
    /\ race' = [race EXCEPT !.phase = "done"]
    /\ last' = [op |-> "RaceUiSecond"]
    /\ RaceFrame

\* The program goes on from the store the pair has left.
RaceOver ==
    /\ race.phase = "done"
    /\ race' = [phase |-> "idle", round |-> race.round]
    /\ last' = [op |-> "RaceOver"]
    /\ UNCHANGED <<listVars, showHidden, vpVars, statVars, menuVars, viewerVars,
                   lastMessage>>
    /\ RaceFrame

NextRace ==
    \/ RaceUiFirst \/ RaceScanSecond \/ RaceScanFirst \/ RaceScanFirstCall
    \/ RaceUiSecond \/ RaceOver

SpecRace == InitRace /\ [][NextRace]_vars

\* C25: an interface call and a scanner call run from the same store in
\* either order leave the same store.
C25_UiAndScanWritesCommute ==
    race.phase = "done" => Store = race.uiFirst

\* C25 witness: the menu was open on its first option, the pair was
\* NavigateActionMenu and a SetStatsResults with an error, and both calls
\* changed the store.
C25_Witness ==
    /\ race.phase = "done"
    /\ race.ui.op = "NavigateActionMenu"
    /\ race.scan.op = "SetStatsResults" /\ race.scan.err # NoError
    /\ race.start.isActionMenuVisible
    /\ actionMenuSelectedIdx # race.start.actionMenuSelectedIdx
    /\ totalSize = StatsError /\ race.start.totalSize # StatsError

\* ========================================================= SpecLock ======
\* The scanner goroutine and the interface thread with the store's RWMutex
\* made explicit: every store method takes the lock on entry and releases it
\* on return (defer), and calculateStats calls the store three times:
\* SetStatsLoading, Cwd, SetStatsResults.  Between them it walks the tree and
\* queries git without the lock.
MaxLockTree == 2

\* sync.RWMutex: Lock waits for no writer and no reader, RLock for no writer.
CanLock == mutex.writer = "" /\ mutex.readers = {}
CanRLock == mutex.writer = ""

\* The store calls the interface thread makes while the scan runs.
LockCalls ==
    {[op |-> "ToggleHidden"], [op |-> "ClearMessage"],
     [op |-> "SetMessage", msg |-> "Error: clipboard unavailable"],
     [op |-> "Stats"]}

InitLock ==
    /\ NewAppState
    /\ loadDirectoryContents(0)
    /\ viewHeight = MaxHeight
    /\ GuiAtRest
    /\ scanPc = "start"
    /\ \E root \in RootOutcomes, t \in {tr \in Trees : Len(tr) <= MaxLockTree} :
          /\ root # "ok" => t = <<>>
          /\ tree = [root |-> root, entries |-> t]
    /\ walk = <<>>
    /\ rdPc = "idle"
    /\ rd = NoRead
    /\ race = NoRace
    /\ mutex = Unlocked
    /\ mem = NoMem
    /\ HistoryAtRest

\* What a step of the scanner leaves alone besides the store's statistics.
LockScanFrame ==
    UNCHANGED <<listVars, showHidden, vpVars, menuVars, viewerVars, lastMessage,
                currentView, views, quitting, viewHeight, tree, rdPc, rd, race,
                mem, histVars>>

\* state.SetStatsLoading(): s.Lock() ...
LockSetStatsLoading ==
    /\ scanPc = "start"
    /\ CanLock
    /\ mutex' = [mutex EXCEPT !.writer = "scanner"]
    /\ scanPc' = "SetStatsLoading"
    /\ last' = [op |-> "LockSetStatsLoading"]
    /\ UNCHANGED <<statVars, updates, walk>>
    /\ LockScanFrame

DoSetStatsLoadingKeepingLock ==
    /\ scanPc = "SetStatsLoading"
    /\ SetStatsLoading
    /\ UNCHANGED mutex
    /\ updates' = 1
    /\ scanPc' = "cwd"
    /\ last' = [op |-> "DoSetStatsLoading"]
    /\ UNCHANGED walk
    /\ LockScanFrame

\* ... the body, the deferred s.Unlock(), then g.Update.
DoSetStatsLoading ==
    /\ scanPc = "SetStatsLoading"
    /\ SetStatsLoading
    /\ mutex' = [mutex EXCEPT !.writer = ""]
    /\ updates' = 1
    /\ scanPc' = "cwd"
    /\ last' = [op |-> "DoSetStatsLoading"]
    /\ UNCHANGED walk
    /\ LockScanFrame

\* state.Cwd(): s.RLock() ...
RLockCwd ==
    /\ scanPc = "cwd"
    /\ CanRLock
    /\ mutex' = [mutex EXCEPT !.readers = @ \cup {"scanner"}]
    /\ scanPc' = "Cwd"
    /\ last' = [op |-> "RLockCwd"]
    /\ UNCHANGED <<statVars, updates, walk>>
    /\ LockScanFrame

\* ... the deferred s.RUnlock(); the locals of calculateStats are set up.
DoCwd ==
    /\ scanPc = "Cwd"
    /\ mutex' = [mutex EXCEPT !.readers = @ \ {"scanner"}]
    /\ walk' = [i |-> 1, totalSize |-> 0, largestFile |-> FileInfo("", FALSE, 0 - 1),
                firstWalkErr |-> NoError, gitStatus |-> "", git |-> NoQuery,
                visited |-> {}]
    /\ scanPc' = "root"
    /\ last' = [op |-> "DoCwd"]
    /\ UNCHANGED <<statVars, updates>>
    /\ LockScanFrame

\* state.SetStatsResults(...): s.Lock() ...
LockSetStatsResults ==
    /\ scanPc = "git"
    /\ CanLock
    /\ mutex' = [mutex EXCEPT !.writer = "scanner"]
    /\ scanPc' = "SetStatsResults"
    /\ last' = [op |-> "LockSetStatsResults"]
    /\ UNCHANGED <<statVars, updates, walk>>
    /\ LockScanFrame

\* ... the body, the deferred s.Unlock(), then g.Update.
DoSetStatsResults ==
    /\ scanPc = "SetStatsResults"
    /\ SetStatsResults(FinalTotalSize(walk.totalSize, walk.firstWalkErr),
                       FinalLargestFile(walk.largestFile, walk.firstWalkErr),
                       walk.gitStatus, CommitErr(walk.firstWalkErr, walk.git.repo))
    /\ mutex' = [mutex EXCEPT !.writer = ""]
    /\ updates' = 1
    /\ scanPc' = "done"
    /\ last' = [op |-> "DoSetStatsResults"]
    /\ UNCHANGED walk
    /\ LockScanFrame

\* A handler or the layout calls a store method: Lock (RLock for a read).
UiLock ==
    /\ rdPc = "idle"
    /\ \E c \in LockCalls :
          /\ rd' = c
          /\ IF c.op = "Stats"
             THEN CanRLock /\ mutex' = [mutex EXCEPT !.readers = @ \cup {"ui"}]
             ELSE CanLock /\ mutex' = [mutex EXCEPT !.writer = "ui"]
    /\ rdPc' = "locked"
    /\ last' = [op |-> "UiLock", during |-> scanPc]
    /\ UNCHANGED <<listVars, showHidden, vpVars, statVars, menuVars, viewerVars,
                   lastMessage, guiVars, viewHeight, scanVars, race, mem, histVars>>

\* The method's body and its deferred Unlock (RUnlock).
UiCall ==
    /\ rdPc = "locked"
    /\ IF rd.op = "Stats"
       THEN /\ mutex' = [mutex EXCEPT !.readers = @ \ {"ui"}]
            /\ UNCHANGED <<listVars, showHidden, vpVars, statVars, menuVars,
                           viewerVars, lastMessage>>
       ELSE /\ mutex' = [mutex EXCEPT !.writer = ""]
            /\ UiWrite(rd)
    /\ rdPc' = "idle"
    /\ rd' = NoRead
    /\ last' = [op |-> "UiCall", call |-> rd.op, during |-> scanPc]
    /\ UNCHANGED <<guiVars, viewHeight, scanVars, race, mem, histVars>>

NextLock ==
    \/ LockSetStatsLoading \/ DoSetStatsLoading \/ RLockCwd \/ DoCwd
    \/ ScanRoot \/ ScanVisit \/ ScanWalked \/ ScanGit
    \/ LockSetStatsResults \/ DoSetStatsResults
    \/ UiLock \/ UiCall

SpecLock == InitLock /\ [][NextLock]_vars

\* The scanner is between two store calls: walking the tree or asking git.
ScanUnderWay == scanPc \in {"cwd", "root", "walk", "walked", "git"}

\* C26: the scanner holds the store's lock only inside SetStatsLoading, Cwd
\* and SetStatsResults, never while it walks the tree or queries git; while
\* the scan is under way an idle interface thread can enter any store call,
\* a call it has entered can return, and some step is always possible.
C26_UiNeverWaitsForScan ==
    /\ mutex.writer = "scanner" => scanPc \in {"SetStatsLoading", "SetStatsResults"}
    /\ "scanner" \in mutex.readers => scanPc = "Cwd"
    /\ (ScanUnderWay /\ rdPc = "idle") => CanLock
    /\ rdPc = "locked" => ENABLED UiCall
    /\ ENABLED NextLock

\* C26 witness: an interface write has run to its end while the scanner was
\* in the middle of the walk, and the walk is still going on.
C26_Witness ==
    /\ last.op = "UiCall" /\ last.call = "ToggleHidden" /\ last.during = "walk"
    /\ scanPc = "walk" /\ walk.i > 1
    /\ isLoadingStats
    /\ showHidden

\* ======================================================== SpecAlias ======
\* The store's reads, and what a caller can do with what they return.  A Go
\* slice or pointer is an address: a read that copies returns a fresh address,
\* a read that returns the field itself returns the address the store holds.
MaxCells == 3

Changed(item) == [item EXCEPT !.Name = "changed"]

\* The caller writes through an address: the first element of a slice, or the
\* FileInfo a pointer leads to.
ModifiedCell(c) ==
    IF c.kind = "list"
    THEN [c EXCEPT !.val = IF Len(c.val) = 0 THEN c.val
                            ELSE [c.val EXCEPT ![1] = Changed(c.val[1])]]
    ELSE [c EXCEPT !.val = Changed(c.val)]

\* What GetItemToDelete's result leads to: nothing for nil, else the FileInfo
\* at the address.
ItemToDelete ==
    IF mem.itemAt = 0 THEN <<>> ELSE <<mem.cells[mem.itemAt].val>>

ListNamed(name) ==
    CASE name = "VisibleDirs" -> visibleDirs
      [] name = "VisibleFiles" -> visibleFiles
      [] name = "HiddenDirs" -> hiddenDirs
      [] name = "HiddenFiles" -> hiddenFiles
      [] name = "GetCurrentList(folders)" -> GetCurrentList(viewFolders)
      [] name = "GetCurrentList(files)" -> GetCurrentList(viewFiles)

ListReads == {"VisibleDirs", "VisibleFiles", "HiddenDirs", "HiddenFiles",
              "GetCurrentList(folders)", "GetCurrentList(files)"}

InitAlias ==
    /\ NewAppState
    /\ loadDirectoryContents(MaxUiLen)
    /\ viewHeight = MaxHeight
    /\ GuiAtRest /\ ScanAtRest /\ ReaderAtRest /\ HistoryAtRest

AliasFrame ==
    UNCHANGED <<listVars, showHidden, vpVars, statVars, menuVars, viewerVars,
                lastMessage, guiVars, viewHeight, scanVars, rdPc, rd, race, mutex,
                histVars>>

\* VisibleDirs and its siblings, GetCurrentList: make, copy, return the copy.
AliasGetList ==
    /\ Len(mem.cells) < MaxCells
    /\ \E name \in ListReads :
          /\ mem' = [mem EXCEPT
                        !.cells = Append(@, [kind |-> "list", val |-> ListNamed(name)]),
                        !.got = @ \cup {Len(mem.cells) + 1}]
          /\ last' = [op |-> "GetList", read |-> name]
    /\ AliasFrame

\* SetItemToDelete(item *FileInfo): the store keeps the caller's pointer.
AliasSetItemToDelete ==
    /\ Len(mem.cells) < MaxCells
    /\ \E name \in {"VisibleDirs", "VisibleFiles"} :
          /\ Len(ListNamed(name)) > 0
          /\ mem' = [mem EXCEPT
                        !.cells = Append(@, [kind |-> "item", val |-> ListNamed(name)[1]]),
                        !.itemAt = Len(mem.cells) + 1]
    /\ last' = [op |-> "SetItemToDelete"]
    /\ AliasFrame

\* GetItemToDelete: return s.itemToDelete, the pointer itself.
AliasGetItemToDelete ==
    /\ mem.itemAt # 0
    /\ mem.itemAt \notin mem.got
    /\ mem' = [mem EXCEPT !.got = @ \cup {mem.itemAt}]
    /\ last' = [op |-> "GetItemToDelete"]
    /\ AliasFrame

\* The caller modifies a value a read has returned.
AliasModify ==
    /\ \E a \in mem.got :
          /\ ModifiedCell(mem.cells[a]) # mem.cells[a]
          /\ mem' = [mem EXCEPT !.cells[a] = ModifiedCell(@)]
          /\ last' = [op |-> "Modify", addr |-> a, kind |-> mem.cells[a].kind]
    /\ AliasFrame

NextAlias ==
    AliasGetList \/ AliasSetItemToDelete \/ AliasGetItemToDelete \/ AliasModify

SpecAlias == InitAlias /\ [][NextAlias]_vars

\* C27: modifying a value a read of the store has returned changes nothing
\* that a later read returns: not the four lists, not the item to delete.
C27_ReadsNeverAlias ==
    [][last'.op = "Modify"
       => /\ listVars' = listVars
          /\ ItemToDelete' = ItemToDelete]_vars

\* ---------------------------------------- viewport claims, error handling
\* A call of one of the two cursor operations.
CursorCall == last'.op \in {"moveCursorAndOrigin", "setCursorAndOrigin"}

\* C28: moveCursorAndOrigin and setCursorAndOrigin called with a view name
\* that is neither folders nor files return changed = false and leave the
\* store as it was; with folders or files, whatever the delta or target, the
\* cursor of the list afterwards is an index of the list (0 on an empty list).
C28_InvalidKeyIgnoredValidKeyClamped ==
    [][CursorCall
       => IF last'.viewName \notin {viewFolders, viewFiles}
          THEN /\ ~last'.changed
               /\ UNCHANGED <<listVars, showHidden, vpVars, statVars, menuVars,
                              viewerVars, lastMessage>>
          ELSE LET k == IF last'.viewName = viewFolders
                        THEN (IF showHidden THEN "hiddenFolders" ELSE "visibleFolders")
                        ELSE (IF showHidden THEN "hiddenFiles" ELSE "visibleFiles")
               IN /\ cursorY'[k] >= 0
                  /\ cursorY'[k] < Len(ListOf(k)) \/ (Len(ListOf(k)) = 0 /\ cursorY'[k] = 0)
                  /\ \A j \in VpKeys \ {k} :
                        cursorY'[j] = cursorY[j] /\ originY'[j] = originY[j]]_vars

\* C28 witness: a delta beyond the list's length was passed with the name of
\* the status view while a viewport stood away from its first row.
C28_Witness ==
    /\ last.op = "moveCursorAndOrigin"
    /\ last.viewName = viewStatus
    /\ last.arg = MaxLen + 1
    /\ ~last.changed
    /\ \E k \in VpKeys : cursorY[k] > 0 /\ originY[k] > 0

\* ------------------------------------------------------------------
\* The texts a failed menu action can leave in the message line.
OnePartErrors == {ErrClipboard, ErrTooLarge, ErrTooLargeCopy, ErrIsDirCopy, ErrIsDirView, ErrBinary, ErrRelPath}
FailureTexts(label) ==
    {label \o " - " \o e[1] : e \in OnePartErrors} \cup {ErrStat[2]}

FailedMenuAction ==
    last'.op = "handleMenuSelect" /\ ~last'.redrawn /\ ~last'.ok

\* C29: a menu action that fails (clipboard unavailable, file unreadable,
\* file too large, binary content, relative path not determined) leaves one
\* error message in the message line and changes none of the four lists, the
\* hidden flag, or any viewport's cursor and origin.
C29_FailedActionOnlySetsMessage ==
    [][FailedMenuAction =>
          /\ lastMessage' \in FailureTexts(last'.label)
          /\ listVars' = listVars
          /\ showHidden' = showHidden
          /\ cursorY' = cursorY
          /\ originY' = originY]_vars

C29_Witness ==
    /\ last.op = "handleMenuSelect" /\ ~last.redrawn /\ ~last.ok
    /\ last.label = "Copy Relative Path"
    /\ lastMessage = "Copy Relative Path - could not determine relative path"
    /\ showHidden
    /\ \E k \in VpKeys : cursorY[k] > 0

\* ------------------------------------------------------------------
\* The list keys of the main loop on a listing of up to MaxLen entries per
\* kind, with the terminal resized between keys: the list views get another
\* height, which the handlers read from the view at the next key.
ResizeTerminal ==
    /\ ~quitting
    /\ \E h \in ViewSizes \ {viewHeight} : viewHeight' = h
    /\ last' = Event("resize", "")
    /\ UNCHANGED <<listVars, showHidden, vpVars, statVars, menuVars, viewerVars,
                   lastMessage, guiVars, scanVars, rdVars, histVars>>

InitCursor ==
    /\ NewAppState
    /\ loadDirectoryContents(MaxLen)
    /\ viewHeight \in ViewSizes
    /\ GuiAtRest /\ ScanAtRest /\ ReaderAtRest
    /\ last = Event("init", "")
    /\ drawn = [menu |-> FALSE, viewer |-> FALSE]
    /\ openedFrom = ""

NextCursor == KeyMove \/ KeyTopBottom \/ KeyDot \/ KeyTab \/ Layout \/ ResizeTerminal

SpecCursor == InitCursor /\ [][NextCursor]_vars

\* A cursor key has just been handled, on the viewport of the focused list.
CursorKey ==
    last'.op \in {"handleMoveCursor", "handleGoTopBottom"} /\ ~last'.redrawn
Selected == VpKey(currentView, showHidden)
SelectedDiffers ==
    cursorY'[Selected] # cursorY[Selected] \/ originY'[Selected] # originY[Selected]

\* The key asks to move up from the first entry or down from the last one.
MoveAtBoundary ==
    /\ last'.op = "handleMoveCursor"
    /\ Len(ListOf(Selected)) > 0
    /\ \/ last'.key \in {"k", "PgUp"} /\ cursorY[Selected] = 0
       \/ last'.key \in {"j", "PgDn"} /\ cursorY[Selected] = Len(ListOf(Selected)) - 1

\* C30: moveCursorAndOrigin and setCursorAndOrigin return changed = TRUE
\* exactly when the cursor or the origin of the selected viewport differs
\* after the call (an empty list collapses both to 0), the handlers queue a
\* redraw exactly when changed is TRUE, and a move at a list boundary returns
\* FALSE when the viewport satisfies the viewport invariant for the height
\* passed.
C30_ChangedIffViewportDiffers ==
    [][CursorKey =>
          /\ last'.changed <=> SelectedDiffers
          /\ updates' = IF last'.changed THEN 1 ELSE updates
          /\ (MoveAtBoundary /\ ViewportInv(Selected, viewHeight)) => ~last'.changed]_vars

\* C30 witness: "j" on the last of several entries, scrolled, returned FALSE
\* and queued no redraw.
C30_Witness ==
    /\ last.op = "handleMoveCursor" /\ last.key = "j" /\ ~last.redrawn
    /\ ~last.changed /\ updates = 0
    /\ Len(ListOf(Selected)) = MaxLen
    /\ cursorY[Selected] = MaxLen - 1 /\ originY[Selected] > 0

\* C30 as stated: every move at a list boundary returns FALSE.
C30_BoundaryMoveReturnsFalse ==
    [][(CursorKey /\ MoveAtBoundary) => ~last'.changed]_vars

\* ------------------------------------------------------------------
\* How far calculateStats has come.
PcRank(pc) ==
    CASE pc = "start" -> 0 [] pc = "root" -> 1 [] pc = "walk" -> 2
      [] pc = "walked" -> 3 [] pc = "git" -> 4 [] pc = "done" -> 5

\* C31: one scan per run of the program.  SetStatsLoading is called once, as
\* the first step of calculateStats; SetStatsResults is called once, as its
\* last step and so after SetStatsLoading; no other step writes the scan
\* result; and once the loading flag is FALSE it is FALSE ever after.
C31_OneScanPerRun ==
    [][/\ PcRank(scanPc') >= PcRank(scanPc)
       /\ (isLoadingStats' /\ statVars' # statVars) => (scanPc = "start" /\ scanPc' = "root")
       /\ (scanPc = "start" /\ scanPc' # "start") => gitStatus' = "Calculating..."
       /\ (~isLoadingStats' /\ isLoadingStats) => (scanPc = "git" /\ scanPc' = "done")
       /\ statVars' # statVars => PcRank(scanPc') = PcRank(scanPc) + 1
       /\ ~isLoadingStats => ~isLoadingStats'
       /\ scanPc = "done" => (scanPc' = "done" /\ statVars' = statVars)]_vars

\* C31 witness: the scan has committed and the interface has read the
\* committed result in full afterwards.
C31_Witness ==
    /\ scanPc = "done" /\ ~isLoadingStats
    /\ rd.complete /\ ~rd.loading /\ rd.total = totalSize
    /\ rdPc = "idle"

\* ------------------------------------------------------------------
\* The scanner goroutine beside the main loop, whose layout passes take the
\* queued update at any moment; nothing the main loop does is read by the
\* scanner.  The Go
\* scheduler runs a goroutine that can run: weak fairness on the scanner's
\* steps.  WalkDir and the git queries return: each is one step here.
InitScanFair ==
    /\ NewAppState
    /\ loadDirectoryContents(0)
    /\ viewHeight = MaxHeight
    /\ GuiAtRest
    /\ scanPc = "start"
    /\ \E root \in RootOutcomes, t \in Trees :
          /\ root # "ok" => t = <<>>
          /\ tree = [root |-> root, entries |-> t]
    /\ walk = <<>>
    /\ ReaderAtRest
    /\ last = Event("init", "")
    /\ drawn = [menu |-> FALSE, viewer |-> FALSE]
    /\ openedFrom = ""

ScannerStep ==
    ScanBegin \/ ScanRoot \/ ScanVisit \/ ScanWalked \/ ScanGit \/ ScanCommit

NextScanFair == ScannerStep \/ Layout

SpecScanFair == InitScanFair /\ [][NextScanFair]_vars /\ WF_vars(ScannerStep)

\* The scan has committed and the redraw it asked for is still queued.
CommittedWithRedraw ==
    scanPc = "done" /\ ~isLoadingStats /\ updates = 1

\* C32: when WalkDir and the git queries return and the scanner is scheduled
\* fairly, the scan commits (the loading flag becomes FALSE, for good) and a
\* redraw is queued by the commit, whatever layout passes the main loop
\* interleaves and whether or not the walk met errors.
C32_ScanCommitsAndAsksRedraw ==
    /\ <>CommittedWithRedraw
    /\ <>[](scanPc = "done" /\ ~isLoadingStats)

\* C32 witness: a walk that met an error has committed after a layout pass
\* took the update queued at the start, and the commit's update is queued.
C32_Witness ==
    /\ CommittedWithRedraw
    /\ statsError # NoError
    /\ last.redrawn
    /\ Len(tree.entries) = MaxEntries

\* ------------------------------------------------------------------
\* "g" or "G" has just been handled on the focused list.
TopBottomKey == last'.op = "handleGoTopBottom" /\ ~last'.redrawn

\* C33: on a non-empty list whose viewport satisfies the viewport invariant
\* for the view's height (>= 1), go-to-top leaves cursor 0 and origin 0 and
\* go-to-bottom leaves the cursor on the last entry and the origin at
\* max(0, length - height); on an empty list both leave cursor and origin 0.
C33_TopAndBottomLandAtTheEnds ==
    [][TopBottomKey =>
          LET n == Len(ListOf(Selected))
          IN IF n = 0
             THEN cursorY'[Selected] = 0 /\ originY'[Selected] = 0
             ELSE (viewHeight >= 1 /\ ViewportInv(Selected, viewHeight)) =>
                     IF last'.key = "g"
                     THEN cursorY'[Selected] = 0 /\ originY'[Selected] = 0
                     ELSE /\ cursorY'[Selected] = n - 1
                          /\ originY'[Selected] = Max(0, n - viewHeight)]_vars

\* C33 witness: "g" has brought a scrolled list of MaxLen entries back to the
\* top in a view of two rows, "G" having scrolled it before.
C33_Witness ==
    /\ last.op = "handleGoTopBottom" /\ last.key = "g" /\ ~last.redrawn
    /\ last.changed
    /\ viewHeight = 2
    /\ Len(ListOf(Selected)) = MaxLen
    /\ cursorY[Selected] = 0 /\ originY[Selected] = 0
    /\ \E k \in VpKeys \ {Selected} :
          cursorY[k] = Len(ListOf(k)) - 1 /\ originY[k] = Len(ListOf(k)) - 2 /\ originY[k] > 0

\* ------------------------------------------------------------------
\* The interface thread has just run a cursor call on the store.
CursorWrite ==
    /\ \/ race'.phase = "ui"
       \/ (race.phase = "scan-called" /\ race'.phase = "done")
    /\ race'.ui.op \in {"moveCursorAndOrigin", "setCursorAndOrigin"}

\* C34: moveCursorAndOrigin and setCursorAndOrigin for the folders or the
\* files view write only the cursor and origin of the viewport selected by
\* the view and the current hidden flag: the other three viewports, the
\* four lists, the hidden flag, the scan result, the menu, the viewer and
\* the message are as before.
C34_CursorCallsWriteOneViewport ==
    [][CursorWrite =>
          LET k == VpKey(race'.ui.viewName, showHidden)
          IN /\ k \in VpKeys
             /\ Store' = [Store EXCEPT !.cursorY = [cursorY EXCEPT ![k] = cursorY'[k]],
                                       !.originY = [originY EXCEPT ![k] = originY'[k]]]]_vars

\* C34 witness: with the scan result committed and another viewport's cursor
\* off 0, a cursor call has moved the selected viewport's cursor.
C34_Witness ==
    /\ race.phase = "ui" /\ race.round = MaxRounds
    /\ race.ui.op = "moveCursorAndOrigin"
    /\ ~isLoadingStats
    /\ LET k == VpKey(race.ui.viewName, showHidden)
       IN /\ cursorY[k] > race.start.cursorY[k]
          /\ \E o \in VpKeys \ {k} : cursorY[o] > 0

\* ------------------------------------------------------------------
\* C35: whatever keys were pressed, every layout pass finds at most one of
\* the menu and the content viewer visible.
C35_OneOverlayAtEveryRedraw ==
    ~(drawn.menu /\ drawn.viewer)

\* ------------------------------------------------------------------
ListViews == {viewFolders, viewFiles}

\* C36: while the menu is visible its return focus is the folders or the
\* files view, while the viewer is visible its return focus is the folders or
\* the files view, and after a layout pass with no overlay open the focus is
\* on the folders or the files view.
C36_ReturnFocusIsAListView ==
    /\ isActionMenuVisible => previousFocusView \in ListViews
    /\ isFileContentViewVisible => fileContentViewPrevFocus \in ListViews
    /\ (last.redrawn /\ ~isActionMenuVisible /\ ~isFileContentViewVisible)
          => currentView \in ListViews

\* C36 witness: the viewer, opened from the files list, was closed with q
\* while the focus was still on the menu view, and the layout pass that
\* followed left the focus on the files view.
C36_Witness ==
    /\ last.op = "handleCloseFileContentView" /\ last.wasVisible /\ last.redrawn
    /\ last.returnFocus = viewFiles
    /\ ~isActionMenuVisible /\ ~isFileContentViewVisible
    /\ currentView = viewFiles

\* ------------------------------------------------------------------
\* C37: in every state of the store, whatever the scanner and the interface
\* have done so far, the loading flag is TRUE exactly when the total size is
\* the pending value -1.
C37_LoadingIffPending ==
    isLoadingStats <=> totalSize = StatsPending

\* C37 witness: the scan of a tree with a file of size > 0 has committed
\* between the two store reads of a redraw, which saw the flag still TRUE.
C37_Witness ==
    /\ scanPc = "done" /\ totalSize > 0 /\ ~isLoadingStats
    /\ rdPc = "stats" /\ rd.loading

\* ------------------------------------------------------------------
\* C38: in every state of the store the recorded scan error is set exactly
\* when the total size is the error value -2: the scanner commits -2 only
\* with an error and an error only with -2.
C38_ErrorIffErrorTotal ==
    statsError # NoError <=> totalSize = StatsError

\* C38 witness: a walk that added up a file and then met an error has
\* committed: the error is recorded, the total is -2, the largest file kept.
C38_Witness ==
    /\ scanPc = "done"
    /\ statsError # NoError /\ totalSize = StatsError
    /\ walk.totalSize > 0
    /\ largestFile.Size > 0

\* ------------------------------------------------------------------
\* C39: while the menu is visible with at least one option the selected
\* index is in 0 .. number of options - 1, whatever deltas (of any size and
\* sign) NavigateActionMenu was called with; the index is -1 only while the
\* menu is closed.
C39_SelectedIndexInRange ==
    /\ (isActionMenuVisible /\ Len(actionMenuOptions) > 0)
          => (0 <= actionMenuSelectedIdx /\ actionMenuSelectedIdx < Len(actionMenuOptions))
    /\ actionMenuSelectedIdx = 0 - 1 => ~isActionMenuVisible

\* C39 witness: NavigateActionMenu with a delta beyond the number of options
\* has been called on a visible menu of MaxOptions options.
C39_Witness ==
    /\ last.op = "NavigateActionMenu" /\ last.delta = 0 - (MaxOptions + 1)
    /\ isActionMenuVisible /\ Len(actionMenuOptions) = MaxOptions
    /\ actionMenuSelectedIdx = MaxOptions - 1

\* ------------------------------------------------------------------
\* Enter has just run the menu's View Content action.
ViewContentStep ==
    last'.op = "handleMenuSelect" /\ last'.label = "View Content" /\ ~last'.redrawn

\* C40: a View Content that fails (the file cannot be read, is over the size
\* limit, or holds a NUL byte) closes the menu, leaves the viewer hidden with
\* every field of its state as before, and sets an error message; the viewer
\* becomes visible only by a View Content that succeeded, on readable
\* content within the limit and without a NUL byte.
C40_FailedViewKeepsViewerHidden ==
    [][/\ (ViewContentStep /\ ~last'.ok) =>
             /\ ~isActionMenuVisible'
             /\ ~isFileContentViewVisible'
             /\ viewerVars' = viewerVars
             /\ lastMessage' \in FailureTexts("View Content")
       /\ (isFileContentViewVisible' /\ ~isFileContentViewVisible) =>
             /\ ViewContentStep /\ last'.ok
             /\ \A i \in DOMAIN fileContentViewContent'.unit :
                   fileContentViewContent'.unit[i] # NUL]_vars

\* C40 witness: View Content has failed on the file of the files list after
\* an earlier View Content had shown it and the viewer had been closed.
C40_Witness ==
    /\ last.op = "handleMenuSelect" /\ last.label = "View Content"
    /\ ~last.ok /\ ~last.redrawn
    /\ lastMessage = "View Content - cannot display binary file content"
    /\ ~isActionMenuVisible /\ ~isFileContentViewVisible
    /\ fileContentViewPrevFocus = viewFiles

====
